---- MODULE Spec2Model ----
(***************************************************************************)
(* A model of pyemul: the memory management unit (pyemul/mmu.py) and the   *)
(* 6502 processor (pyemul/cpu.py).                                         *)
(*                                                                         *)
(* Python integers are unbounded, so registers and addresses are modelled  *)
(* as unbounded integers and every mask the code applies is applied here.  *)
(* A raised exception is the field err of the machine record: once err is  *)
(* set, the rest of the handler is skipped, and what the handler changed   *)
(* before the raise stays changed.                                         *)
(***************************************************************************)
EXTENDS Integers, Sequences, FiniteSets, TLC

(***************************************************************************)
(* Python's integer operators.  &, | and ^ act on the infinite two's       *)
(* complement form, so the recursion ends at 0 (all bits clear) or -1 (all *)
(* bits set).  x >> n is floor division by 2^n and x % n is never negative *)
(* for n > 0; \div and % have those meanings.                              *)
(***************************************************************************)
RECURSIVE BitAnd(_, _)
BitAnd(x, y) ==
    IF x = 0 \/ y = 0 THEN 0
    ELSE IF x = -1 THEN y
    ELSE IF y = -1 THEN x
    ELSE ((x % 2) * (y % 2)) + 2 * BitAnd(x \div 2, y \div 2)

RECURSIVE BitOr(_, _)
BitOr(x, y) ==
    IF x = 0 THEN y
    ELSE IF y = 0 THEN x
    ELSE IF x = -1 \/ y = -1 THEN -1
    ELSE (IF (x % 2) + (y % 2) > 0 THEN 1 ELSE 0) + 2 * BitOr(x \div 2, y \div 2)

RECURSIVE BitXor(_, _)
BitXor(x, y) ==
    IF x = 0 THEN y
    ELSE IF y = 0 THEN x
    ELSE IF x = -1 /\ y = -1 THEN 0
    ELSE (((x % 2) + (y % 2)) % 2) + 2 * BitXor(x \div 2, y \div 2)

\* v is evaluated once and F applied to its value: the way a Python local
\* holds the result of a call
Let(v, F(_)) == CHOOSE out \in {F(b) : b \in {v}} : TRUE

\* ~x
BitNot(x) == (-x) - 1

\* bool(x): the truth value of an integer
Truthy(x) == x # 0

\* int(b) for a bool b
BoolInt(b) == IF b THEN 1 ELSE 0

(***************************************************************************)
(* MMU                                                                     *)
(*                                                                         *)
(* memory is the array of MemLen cells, kept sparse: the cells that hold 0 *)
(* are left out of the function's domain.  _read_only is the array of      *)
(* MemLen marks, kept as the set of half-open intervals <<lo, hi>> that    *)
(* add_block marked.                                                       *)
(***************************************************************************)
\* an array of 0x10000 cells
MemLen64K == \h10000

\* len(self.memory) == len(self._read_only)
MemLen == \hFFFF

\* array.array indexing: a negative index counts from the end; -1 stands for
\* IndexError
Index(addr) ==
    IF 0 <= addr /\ addr < MemLen THEN addr
    ELSE IF -MemLen <= addr /\ addr < 0 THEN addr + MemLen
    ELSE -1

Cell(mem, i) == IF i \in DOMAIN mem THEN mem[i] ELSE 0

SetCell(mem, i, value) ==
    IF value = 0
    THEN [j \in (DOMAIN mem) \ {i} |-> mem[j]]
    ELSE [j \in (DOMAIN mem) \cup {i} |-> IF j = i THEN value ELSE mem[j]]

Marked(ro, i) == \E iv \in ro : iv[1] <= i /\ i < iv[2]

\* MMU.read on machine m: the byte goes to m.v
MmuRead(m, addr) ==
    IF m.err # "none" THEN m
    ELSE IF Index(addr) = -1 THEN [m EXCEPT !.err = "IndexError"]
    ELSE [m EXCEPT !.v = Cell(m.memory, Index(addr))]

\* write without its read-only test
MmuWriteUnchecked(m, addr, value) ==
    IF m.err # "none" THEN m
    ELSE IF Index(addr) = -1 THEN [m EXCEPT !.err = "IndexError"]
    ELSE IF value < 0 \/ value > 255 THEN [m EXCEPT !.err = "OverflowError"]
    ELSE [m EXCEPT !.memory = SetCell(m.memory, Index(addr), value)]

\* MMU.write on machine m; array('B') holds 0..255 only
MmuWrite(m, addr, value) ==
    IF m.err # "none" THEN m
    ELSE IF Index(addr) = -1 THEN [m EXCEPT !.err = "IndexError"]
    ELSE IF Marked(m.read_only, Index(addr)) THEN [m EXCEPT !.err = "ReadOnlyError"]
    ELSE IF value < 0 \/ value > 255 THEN [m EXCEPT !.err = "OverflowError"]
    ELSE [m EXCEPT !.memory = SetCell(m.memory, Index(addr), value)]

Min(a, b) == IF a <= b THEN a ELSE b

\* the clash test without its test of the end address
ClashStartOnly(blks, start_addr, end) ==
    \E k \in 1..Len(blks) :
        start_addr > blks[k].start /\ start_addr < blks[k].start + blks[k].length

\* add_block's clash test over the blocks already allocated
Clash(blks, start_addr, end) ==
    \E k \in 1..Len(blks) :
        LET start_chk == start_addr > blks[k].start
                         /\ start_addr < blks[k].start + blks[k].length
            end_chk == end > blks[k].start
                       /\ end < blks[k].start + blks[k].length
        IN  start_chk \/ end_chk

\* the loop that marks range(start_addr, end) read-only: it stops with
\* IndexError at the first address past the array
MarkReadOnly(m, start_addr, end) ==
    LET stop == Min(end, MemLen)
        ro == IF start_addr < stop
              THEN m.read_only \cup {<<start_addr, stop>>}
              ELSE m.read_only
    IN  [m EXCEPT !.read_only = ro,
                  !.err = IF end > MemLen /\ end > start_addr
                          THEN "IndexError" ELSE "none"]

\* the copy loop started one cell late
CopyDataLate(m, start_addr, end, data) ==
    LET n == Min(Min(end, MemLen) - start_addr, Len(data))
        written == {start_addr + i : i \in 1..(n - 1)}
        dom == {a \in (DOMAIN m.memory) \cup written :
                    IF a \in written THEN data[a - start_addr + 1] # 0 ELSE TRUE}
    IN  IF m.err # "none" THEN m
        ELSE [m EXCEPT !.memory = [a \in dom |-> IF a \in written
                                                 THEN data[a - start_addr + 1]
                                                 ELSE m.memory[a]],
                       !.err = IF n < end - start_addr
                               THEN "IndexError" ELSE "none"]

\* the loop that copies data into range(start_addr, end): data[i] raises
\* IndexError past the end of data, memory[addr] past the end of the array
CopyData(m, start_addr, end, data) ==
    LET n == Min(Min(end, MemLen) - start_addr, Len(data))
        written == {start_addr + i : i \in 0..(n - 1)}
        dom == {a \in (DOMAIN m.memory) \cup written :
                    IF a \in written THEN data[a - start_addr + 1] # 0 ELSE TRUE}
    IN  IF m.err # "none" THEN m
        ELSE [m EXCEPT !.memory = [a \in dom |-> IF a \in written
                                                 THEN data[a - start_addr + 1]
                                                 ELSE m.memory[a]],
                       !.err = IF n < end - start_addr
                               THEN "IndexError" ELSE "none"]

\* MMU.add_block; data = <<>> stands for data=None (and for empty data,
\* which `if data:` treats alike)
MmuAddBlock(m, start_addr, length, name, ro, data) ==
    LET end == start_addr + length
        new_mem == [start |-> start_addr, length |-> length,
                    name |-> name, read_only |-> ro]
        m1 == IF ro THEN MarkReadOnly(m, start_addr, end) ELSE m
        m2 == IF data # <<>> THEN CopyData(m1, start_addr, end, data) ELSE m1
    IN  IF m.err # "none" THEN m
        ELSE IF Clash(m.blocks, start_addr, end)
        THEN [m EXCEPT !.err = "MemoryRangeError"]
        ELSE IF m2.err # "none" THEN m2
        ELSE [m2 EXCEPT !.blocks = Append(m2.blocks, new_mem)]

(***************************************************************************)
(* State                                                                   *)
(***************************************************************************)
VARIABLES
    memory,      \* MMU.memory
    read_only,   \* MMU._read_only
    blocks,      \* MMU.blocks
    cpu,         \* "none" until a Processor is constructed, then "built"
    r,           \* Processor.r, the Registers: a, x, y, sp, pc, p, and s,
                 \* the attribute TXS creates (-1 while it does not exist)
    cycles,      \* Processor.cycles
    stack_page,  \* Processor.stack_page
    ops_pha,     \* the argument stored in _ops[0x48] when the table is built
    ops_php,     \* the argument stored in _ops[0x08] when the table is built
    hist,        \* the last calls made, newest last: what was called, with
                 \* what, what it returned or raised, and the state before
    ncalls       \* how many calls were made

vars == <<memory, read_only, blocks, cpu, r, cycles, stack_page,
          ops_pha, ops_php, hist, ncalls>>

(***************************************************************************)
(* Registers                                                               *)
(***************************************************************************)
\* Registers.flagbyte
flagbyte ==
    [f \in {"N", "V", "?", "B", "D", "I", "Z", "C"} |->
        CASE f = "N" -> 128 [] f = "V" -> 64 [] f = "?" -> 32 [] f = "B" -> 16
          [] f = "D" -> 8 [] f = "I" -> 4 [] f = "Z" -> 2 [] f = "C" -> 1]

\* reset without its assignment to sp
resetKeepSP(regs, program_counter) ==
    [regs EXCEPT !.a = 0, !.x = 0, !.y = 0, !.pc = program_counter,
                 !.p = BitOr(flagbyte["?"], flagbyte["I"])]

\* Registers.reset; it does not touch an attribute s
reset(regs, program_counter) ==
    [regs EXCEPT !.a = 0, !.x = 0, !.y = 0, !.sp = \hFF, !.pc = program_counter,
                 !.p = BitOr(flagbyte["?"], flagbyte["I"])]

\* Registers.__init__: a new object has no attribute s
Registers(program_counter) ==
    reset([a |-> 0, x |-> 0, y |-> 0, sp |-> 0, pc |-> 0, p |-> 0, s |-> -1],
          program_counter)

\* Registers.get_flag
get_flag(m, flag) == Truthy(BitAnd(m.r.p, flagbyte[flag]))

\* Registers.set_flag; value is the truth value of the argument
set_flag(m, flag, value) ==
    IF m.err # "none" THEN m
    ELSE IF value
    THEN [m EXCEPT !.r.p = BitOr(m.r.p, flagbyte[flag])]
    ELSE [m EXCEPT !.r.p = BitAnd(m.r.p, \hFF - flagbyte[flag])]

\* ZN with the negative flag taken from bit 6
ZNBit6(m, value) ==
    set_flag(set_flag(m, "Z", value = 0), "N", Truthy(BitAnd(value, \h40)))

\* Registers.ZN
ZN(m, value) ==
    set_flag(set_flag(m, "Z", value = 0), "N", Truthy(BitAnd(value, \h80)))

(***************************************************************************)
(* Processor: fetching, the stack, conversions                             *)
(***************************************************************************)
\* Processor.interrupts
interrupts ==
    [k \in {"ABORT", "COP", "IRQ", "BRK", "NMI", "RESET"} |->
        CASE k = "ABORT" -> \hFFF8 [] k = "COP" -> \hFFF4 [] k = "IRQ" -> \hFFFE
          [] k = "BRK" -> \hFFFE [] k = "NMI" -> \hFFFA [] k = "RESET" -> \hFFFC]

\* Processor.read_byte: the program counter moves only if the read succeeds
read_byte(m) ==
    LET m1 == MmuRead(m, m.r.pc)
    IN  IF m1.err # "none" THEN m1 ELSE [m1 EXCEPT !.r.pc = @ + 1]

\* Processor.read_word
read_word(m) ==
    LET m1 == read_byte(m)
        m2 == read_byte(m1)
    IN  IF m2.err # "none" THEN m2 ELSE [m2 EXCEPT !.v = (m2.v * 256) + m1.v]

\* Processor.stack_pull
stack_pull(m) ==
    LET addr == stack_page * \h100 + BitAnd(m.r.sp + 1, \hFF)
        m1 == MmuRead(m, addr)
    IN  IF m1.err # "none" THEN m1
        ELSE [m1 EXCEPT !.r.sp = BitAnd(m.r.sp + 1, \hFF)]

\* Processor.stack_pull_word: the left operand is pulled first
stack_pull_word(m) ==
    LET m1 == stack_pull(m)
        m2 == stack_pull(m1)
    IN  IF m2.err # "none" THEN m2 ELSE [m2 EXCEPT !.v = m1.v + (m2.v * 256)]

\* Processor.stack_push
stack_push(m, value) ==
    LET addr == stack_page * \h100 + BitAnd(m.r.sp + 1, \hFF)
        m1 == MmuWrite(m, addr, value)
    IN  IF m1.err # "none" THEN m1
        ELSE [m1 EXCEPT !.r.sp = BitAnd(m.r.sp - 1, \hFF)]

\* Processor.stack_push_word
stack_push_word(m, value) ==
    stack_push(stack_push(m, value \div 256), BitAnd(value, \hFF))

\* Processor.interrupt_address: the high byte is read first
interrupt_address(m, interrupt) ==
    LET interrupt_addr == interrupts[interrupt]
        m1 == MmuRead(m, interrupt_addr + 1)
        m2 == MmuRead(m1, interrupt_addr)
    IN  IF m2.err # "none" THEN m2 ELSE [m2 EXCEPT !.v = (m1.v * 256) + m2.v]

\* Processor.from_BCD
from_BCD(value) ==
    ((BitAnd(value, \hF0) \div \h10) * 10) + BitAnd(value, \hF)

\* Processor.to_BCD
to_BCD(value) == ((value \div 10) * 16) + (value % 10)

\* Processor.from_twos_comp
from_twos_comp(value) == BitAnd(value, \h7F) - BitAnd(value, \h80)

(***************************************************************************)
(* Addressing modes: each leaves its result, a value or an address, in v   *)
(***************************************************************************)
\* math.floor(addr/0xff), what the page tests compare
floor_ff(addr) == addr \div \hFF

_load_im(m) == read_byte(m)

_zero_page(m) == read_byte(m)

_zero_page_value(m) ==
    LET m1 == _zero_page(m) IN MmuRead(m1, m1.v)

_zero_page_x(m) ==
    LET m1 == read_byte(m)
    IN  IF m1.err # "none" THEN m1
        ELSE [m1 EXCEPT !.v = BitAnd(m1.v + m1.r.x, \hFF)]

_zero_page_x_value(m) ==
    LET m1 == _zero_page_x(m) IN MmuRead(m1, m1.v)

_zero_page_y(m) ==
    LET m1 == read_byte(m)
    IN  IF m1.err # "none" THEN m1
        ELSE [m1 EXCEPT !.v = BitAnd(m1.v + m1.r.y, \hFF)]

_zero_page_y_value(m) ==
    LET m1 == _zero_page_y(m) IN MmuRead(m1, m1.v)

_load_addr(m) == read_word(m)

_load_addr_value(m) ==
    LET m1 == _load_addr(m) IN MmuRead(m1, m1.v)

_load_addr_x(m) ==
    LET m1 == read_word(m)
        addr == m1.v
        offset == m1.r.x
        final_addr == BitAnd(addr + offset, \hFFFF)
    IN  IF m1.err # "none" THEN m1
        ELSE [m1 EXCEPT !.v = final_addr,
                        !.cycles = IF floor_ff(addr) # floor_ff(final_addr)
                                   THEN @ + 1 ELSE @]

_load_addr_x_value(m) ==
    LET m1 == _load_addr_x(m) IN MmuRead(m1, m1.v)

\* the offset is read from r.x here too
_load_addr_y(m) ==
    LET m1 == read_word(m)
        addr == m1.v
        offset == m1.r.x
        final_addr == BitAnd(addr + offset, \hFFFF)
    IN  IF m1.err # "none" THEN m1
        ELSE [m1 EXCEPT !.v = final_addr,
                        !.cycles = IF floor_ff(addr) # floor_ff(final_addr)
                                   THEN @ + 1 ELSE @]

_load_addr_y_value(m) ==
    LET m1 == _load_addr_y(m) IN MmuRead(m1, m1.v)

_load_ix(m) ==
    LET m1 == read_byte(m)
        intermed == BitAnd(m1.v + m1.r.x, \hFF)
        m2 == MmuRead(m1, BitAnd(intermed + 1, \hFF))
        m3 == MmuRead(m2, intermed)
    IN  IF m3.err # "none" THEN m3
        ELSE [m3 EXCEPT !.v = BitAnd((m2.v * 256) + m3.v, \hFFFF)]

_load_ix_value(m) ==
    LET m1 == _load_ix(m) IN MmuRead(m1, m1.v)

\* the address returned is addr, not final_addr
_load_iy(m) ==
    LET m1 == read_byte(m)
        intermed == m1.v
        m2 == MmuRead(m1, intermed + 1)
        m3 == MmuRead(m2, intermed)
        addr == (BitAnd(m2.v, \hFF) * 256) + m3.v
        final_addr == addr + m3.r.y
    IN  IF m3.err # "none" THEN m3
        ELSE [m3 EXCEPT !.v = addr,
                        !.cycles = IF floor_ff(addr) # floor_ff(final_addr)
                                   THEN @ + 1 ELSE @]

_load_iy_value(m) ==
    LET m1 == _load_iy(m) IN MmuRead(m1, m1.v)

\* _load_indirect with the high byte read at addr1 + 1 across a page end too
_load_indirectCarry(m) ==
    LET m1 == read_word(m)
        addr1 == m1.v
        m2 == MmuRead(m1, addr1 + 1)
        m3 == MmuRead(m2, addr1)
    IN  IF m3.err # "none" THEN m3
        ELSE [m3 EXCEPT !.v = BitAnd((m2.v * 256) + m3.v, \hFFFF)]

\* the right operand of + , read(addr1), is read second
_load_indirect(m) ==
    LET m1 == read_word(m)
        addr1 == m1.v
        addr2 == IF BitAnd(addr1, \hFF) = \hFF THEN addr1 - \hFF ELSE addr1 + 1
        m2 == MmuRead(m1, addr2)
        m3 == MmuRead(m2, addr1)
    IN  IF m3.err # "none" THEN m3
        ELSE [m3 EXCEPT !.v = BitAnd((m2.v * 256) + m3.v, \hFFFF)]

\* returns None
_implied(m) == m

(***************************************************************************)
(* Operations.  The argument is what step() hands over, tagged with its    *)
(* Python type: <<"int", n>>, <<"str", c>>, <<"tuple", c, d>>, <<"none">>. *)
(***************************************************************************)
IsStr(arg, c) == arg[1] = "str" /\ arg[2] = c

\* ADC without the carry added in
ADCNoCarry(m, arg) ==
    LET D == get_flag(m, "D")
        value1 == IF D THEN from_BCD(m.r.a) ELSE m.r.a
        value2 == IF D THEN from_BCD(arg[2]) ELSE arg[2]
        result == value1 + value2
        acc == IF D THEN to_BCD(result) ELSE BitAnd(result, \hFF)
        m1 == [m EXCEPT !.r.a = acc]
        m2 == set_flag(m1, "C", IF D THEN result > 99 ELSE result > \hFF)
        m3 == ZN(m2, acc)
    IN  set_flag(m3, "V",
            Truthy(BitAnd(BitAnd(BitNot(BitXor(value1, value2)),
                                 BitXor(value1, result)), \h80)))

\* Processor.ADC: in decimal mode the sum is not reduced mod 100
ADC(m, arg) ==
    LET D == get_flag(m, "D")
        value1 == IF D THEN from_BCD(m.r.a) ELSE m.r.a
        value2 == IF D THEN from_BCD(arg[2]) ELSE arg[2]
        result == value1 + value2 + BoolInt(get_flag(m, "C"))
        acc == IF D THEN to_BCD(result) ELSE BitAnd(result, \hFF)
        m1 == [m EXCEPT !.r.a = acc]
        m2 == set_flag(m1, "C", IF D THEN result > 99 ELSE result > \hFF)
        m3 == ZN(m2, acc)
    IN  set_flag(m3, "V",
            Truthy(BitAnd(BitAnd(BitNot(BitXor(value1, value2)),
                                 BitXor(value1, result)), \h80)))

AND(m, arg) ==
    LET calculation == BitAnd(m.r.a, arg[2])
        acc == BitAnd(calculation, \hFF)
    IN  ZN([m EXCEPT !.r.a = acc], acc)

ASL(m, arg) ==
    IF IsStr(arg, "a")
    THEN LET value == m.r.a * 2
             m1 == [m EXCEPT !.r.a = BitAnd(value, \hFF)]
         IN  ZN(set_flag(m1, "C", value > \hFF), BitAnd(value, \hFF))
    ELSE LET m1 == MmuRead(m, arg[2])
             value == m1.v * 2
             m2 == MmuWrite(m1, arg[2], value)
         IN  ZN(set_flag(m2, "C", value > \hFF), BitAnd(value, \hFF))

BRA(m, arg) ==
    LET m1 == _load_im(m)
        jump == m1.v
        current_pc == m1.r.pc
        new_pc == current_pc + from_twos_comp(jump)
    IN  IF m1.err # "none" THEN m1
        ELSE IF get_flag(m1, arg[2]) = arg[3]
        THEN [m1 EXCEPT !.r.pc = new_pc,
                        !.cycles = IF floor_ff(current_pc) = floor_ff(new_pc)
                                   THEN @ + 1 ELSE @ + 2]
        ELSE m1

BIT(m, arg) ==
    LET m1 == set_flag(m, "Z", BitAnd(m.r.a, arg[2]) = 0)
        m2 == set_flag(m1, "N", Truthy(BitAnd(arg[2], \h80)))
    IN  set_flag(m2, "V", Truthy(BitAnd(arg[2], \h40)))

BRK(m, arg) ==
    LET m1 == set_flag(m, "B", TRUE)
        m2 == stack_push_word(m1, m1.r.pc + 1)
        m3 == stack_push(m2, m2.r.p)
        m4 == set_flag(m3, "I", TRUE)
        m5 == interrupt_address(m4, "BRK")
    IN  IF m5.err # "none" THEN m5 ELSE [m5 EXCEPT !.r.pc = m5.v]

CLR(m, arg) == set_flag(m, arg[2], FALSE)

\* __compare with the carry set only for a greater register
compareStrict(m, register, value) ==
    LET result == BitAnd(register - value, \hFF)
        m1 == set_flag(m, "Z", result = 0)
        m2 == set_flag(m1, "C", value < register)
    IN  set_flag(m2, "N", Truthy(BitAnd(result, \h80)))

\* Processor.__compare
compare(m, register, value) ==
    LET result == BitAnd(register - value, \hFF)
        m1 == set_flag(m, "Z", result = 0)
        m2 == set_flag(m1, "C", value <= register)
    IN  set_flag(m2, "N", Truthy(BitAnd(result, \h80)))

CMP(m, arg) == compare(m, m.r.a, arg[2])

CPX(m, arg) == compare(m, m.r.x, arg[2])

CPY(m, arg) == compare(m, m.r.y, arg[2])

\* mmu.write is called with one argument: TypeError
DEC(m, arg) ==
    LET m1 == MmuRead(m, arg[2])
    IN  IF m1.err # "none" THEN m1 ELSE [m1 EXCEPT !.err = "TypeError"]

DEX(m, arg) ==
    LET x == BitAnd(m.r.x - 1, \hFF) IN ZN([m EXCEPT !.r.x = x], x)

DEY(m, arg) ==
    LET y == BitAnd(m.r.y - 1, \hFF) IN ZN([m EXCEPT !.r.y = y], y)

EOR(m, arg) ==
    LET acc == BitXor(m.r.a, arg[2]) IN ZN([m EXCEPT !.r.a = acc], acc)

\* mmu.write is called with one argument: TypeError
INC(m, arg) ==
    LET m1 == MmuRead(m, arg[2])
    IN  IF m1.err # "none" THEN m1 ELSE [m1 EXCEPT !.err = "TypeError"]

INX(m, arg) ==
    LET x == BitAnd(m.r.x + 1, \hFF) IN ZN([m EXCEPT !.r.x = x], x)

INY(m, arg) ==
    LET y == BitAnd(m.r.y + 1, \hFF) IN ZN([m EXCEPT !.r.y = y], y)

JMP(m, arg) == [m EXCEPT !.r.pc = arg[2]]

JSR(m, arg) ==
    LET m1 == stack_push_word(m, m.r.pc - 1)
    IN  IF m1.err # "none" THEN m1 ELSE [m1 EXCEPT !.r.pc = arg[2]]

LDA(m, arg) == ZN([m EXCEPT !.r.a = arg[2]], arg[2])

LDX(m, arg) == ZN([m EXCEPT !.r.x = arg[2]], arg[2])

LDY(m, arg) == ZN([m EXCEPT !.r.y = arg[2]], arg[2])

\* in the memory form mmu.write is called with one argument: TypeError,
\* after the carry flag is set
LSR(m, arg) ==
    IF IsStr(arg, "a")
    THEN LET m1 == set_flag(m, "C", Truthy(BitAnd(m.r.a, \h01)))
             value == m.r.a \div 2
         IN  ZN([m1 EXCEPT !.r.a = value], value)
    ELSE LET m1 == MmuRead(m, arg[2])
             m2 == set_flag(m1, "C", Truthy(BitAnd(m1.v, \h01)))
         IN  IF m2.err # "none" THEN m2 ELSE [m2 EXCEPT !.err = "TypeError"]

NOP(m, arg) == m

ORA(m, arg) ==
    LET acc == BitOr(m.r.a, arg[2]) IN ZN([m EXCEPT !.r.a = acc], acc)

PHS(m, arg) == stack_push(m, arg[2])

\* PLS without the unused bit forced into p
PLSRaw(m, arg) ==
    LET m1 == stack_pull(m)
        value == m1.v
    IN  IF m1.err # "none" THEN m1
        ELSE IF IsStr(arg, "a") THEN ZN([m1 EXCEPT !.r.a = value], value)
        ELSE IF IsStr(arg, "p") THEN [m1 EXCEPT !.r.p = value]
        ELSE m1

PLS(m, arg) ==
    LET m1 == stack_pull(m)
        value == m1.v
    IN  IF m1.err # "none" THEN m1
        ELSE IF IsStr(arg, "a") THEN ZN([m1 EXCEPT !.r.a = value], value)
        ELSE IF IsStr(arg, "p") THEN [m1 EXCEPT !.r.p = BitOr(value, 32)]
        ELSE m1

ROL(m, arg) ==
    IF IsStr(arg, "a")
    THEN LET original == m.r.a
             new == (original * 2) + BoolInt(get_flag(m, "C"))
             m1 == [m EXCEPT !.r.a = BitAnd(new, \hFF)]
         IN  ZN(set_flag(m1, "C", Truthy(BitAnd(original, \h80))),
                BitAnd(new, \hFF))
    ELSE LET m1 == MmuRead(m, arg[2])
             original == m1.v
             new == (original * 2) + BoolInt(get_flag(m, "C"))
             m2 == MmuWrite(m1, arg[2], BitAnd(new, \hFF))
         IN  ZN(set_flag(m2, "C", Truthy(BitAnd(original, \h80))),
                BitAnd(new, \hFF))

ROR(m, arg) ==
    IF IsStr(arg, "a")
    THEN LET original == m.r.a
             new == (original \div 2) + BoolInt(get_flag(m, "C")) * \h80
             m1 == [m EXCEPT !.r.a = BitAnd(new, \hFF)]
         IN  ZN(set_flag(m1, "C", Truthy(BitAnd(original, \h01))),
                BitAnd(new, \hFF))
    ELSE LET m1 == MmuRead(m, arg[2])
             original == m1.v
             new == (original \div 2) + BoolInt(get_flag(m, "C")) * \h80
             m2 == MmuWrite(m1, arg[2], BitAnd(new, \hFF))
         IN  ZN(set_flag(m2, "C", Truthy(BitAnd(original, \h01))),
                BitAnd(new, \hFF))

RTI(m, arg) ==
    LET m1 == stack_pull(m)
        m2 == IF m1.err # "none" THEN m1 ELSE [m1 EXCEPT !.r.p = m1.v]
        m3 == stack_pull_word(m2)
    IN  IF m3.err # "none" THEN m3 ELSE [m3 EXCEPT !.r.pc = m3.v]

RTS(m, arg) ==
    LET m1 == stack_pull_word(m)
    IN  IF m1.err # "none" THEN m1
        ELSE [m1 EXCEPT !.r.pc = BitAnd(m1.v + 1, \hFFFF)]

SBC(m, arg) ==
    LET D == get_flag(m, "D")
        value1 == IF D THEN from_BCD(m.r.a) ELSE m.r.a
        value2 == IF D THEN from_BCD(arg[2]) ELSE arg[2]
        result == value1 - value2 - BoolInt(~get_flag(m, "C"))
        acc == IF D THEN to_BCD(result % 100) ELSE BitAnd(result, \hFF)
        m1 == [m EXCEPT !.r.a = acc]
        m2 == set_flag(m1, "C", result >= 0)
        m3 == set_flag(m2, "V",
                  Truthy(BitAnd(BitAnd(BitXor(value1, value2),
                                       BitXor(value1, result)), \h80)))
    IN  ZN(m3, acc)

SET(m, arg) == set_flag(m, arg[2], TRUE)

STA(m, arg) == MmuWrite(m, arg[2], m.r.a)

STX(m, arg) == MmuWrite(m, arg[2], m.r.x)

STY(m, arg) == MmuWrite(m, arg[2], m.r.y)

\* getattr(self.r, 's') raises AttributeError until TXS has created s;
\* setattr(self.r, 's', v) creates or sets s and leaves sp alone
TRA(m, arg) ==
    LET source == arg[2]
        dest == arg[3]
        source_value == CASE source = "a" -> m.r.a
                          [] source = "x" -> m.r.x
                          [] source = "y" -> m.r.y
                          [] source = "s" -> m.r.s
        m1 == CASE dest = "a" -> [m EXCEPT !.r.a = source_value]
                [] dest = "x" -> [m EXCEPT !.r.x = source_value]
                [] dest = "y" -> [m EXCEPT !.r.y = source_value]
                [] dest = "s" -> [m EXCEPT !.r.s = source_value]
    IN  IF source = "s" /\ m.r.s = -1 THEN [m EXCEPT !.err = "AttributeError"]
        ELSE IF dest # "s" THEN ZN(m1, source_value)
        ELSE m1

(***************************************************************************)
(* The opcode table and step()                                             *)
(***************************************************************************)
\* self._ops, cpu.py lines 155-199: <<opcode, name, operation, argument, cycles>>
ops_1 == {
    <<\h69, "ADC Im", "ADC", <<"call", "_load_im">>, 2>>,
    <<\h65, "ADC Z", "ADC", <<"call", "_zero_page_value">>, 3>>,
    <<\h75, "ADC Z,x", "ADC", <<"call", "_zero_page_x_value">>, 4>>,
    <<\h6D, "ADC A", "ADC", <<"call", "_load_addr_value">>, 4>>,
    <<\h7D, "ADC A,x", "ADC", <<"call", "_load_addr_x_value">>, 4>>,
    <<\h79, "ADC A,y", "ADC", <<"call", "_load_addr_y_value">>, 4>>,
    <<\h61, "ADC I,x", "ADC", <<"call", "_load_ix_value">>, 6>>,
    <<\h71, "ADC I,y", "ADC", <<"call", "_load_iy_value">>, 5>>,
    <<\h29, "AND Im", "AND", <<"call", "_load_im">>, 2>>,
    <<\h25, "AND Z", "AND", <<"call", "_zero_page_value">>, 3>>,
    <<\h35, "AND Z,x", "AND", <<"call", "_zero_page_x_value">>, 4>>,
    <<\h2D, "AND A", "AND", <<"call", "_load_addr_value">>, 4>>,
    <<\h3D, "AND A,x", "AND", <<"call", "_load_addr_x_value">>, 4>>,
    <<\h39, "AND A,y", "AND", <<"call", "_load_addr_y_value">>, 4>>,
    <<\h21, "AND I,x", "AND", <<"call", "_load_ix_value">>, 6>>,
    <<\h31, "AND I,y", "AND", <<"call", "_load_iy_value">>, 5>>,
    <<\h0A, "ASL Acc", "ASL", <<"str", "a">>, 2>>,
    <<\h06, "ASL Z", "ASL", <<"call", "_zero_page">>, 5>>,
    <<\h16, "ASL Z,x", "ASL", <<"call", "_zero_page_x">>, 6>>,
    <<\h0E, "ASL A", "ASL", <<"call", "_load_addr">>, 6>>,
    <<\h1E, "ASL A,x", "ASL", <<"call", "_load_addr_x">>, 7>>,
    <<\h10, "BPL", "BRA", <<"tuple", "N", FALSE>>, 2>>,
    <<\h30, "BMI", "BRA", <<"tuple", "N", TRUE>>, 2>>,
    <<\h50, "BVC", "BRA", <<"tuple", "V", FALSE>>, 2>>,
    <<\h70, "BVS", "BRA", <<"tuple", "V", TRUE>>, 2>>,
    <<\h90, "BCC", "BRA", <<"tuple", "C", FALSE>>, 2>>,
    <<\hB0, "BCS", "BRA", <<"tuple", "C", TRUE>>, 2>>,
    <<\hD0, "BNE", "BRA", <<"tuple", "Z", FALSE>>, 2>>,
    <<\hF0, "BEQ", "BRA", <<"tuple", "Z", TRUE>>, 2>>,
    <<\h24, "BIT Z", "BIT", <<"call", "_zero_page_value">>, 3>>,
    <<\h2C, "BIT A", "BIT", <<"call", "_load_addr_value">>, 4>>,
    <<\h00, "BRK", "BRK", <<"call", "_implied">>, 7>>,
    <<\h18, "CLC", "CLR", <<"str", "C">>, 2>>,
    <<\hD8, "CLD", "CLR", <<"str", "D">>, 2>>,
    <<\h58, "CLI", "CLR", <<"str", "I">>, 2>>,
    <<\hB8, "CLV", "CLR", <<"str", "V">>, 2>>,
    <<\hC9, "CMP Im", "CMP", <<"call", "_load_im">>, 2>>,
    <<\hC5, "CMP Z", "CMP", <<"call", "_zero_page_value">>, 3>>
}

\* self._ops, cpu.py lines 200-249: <<opcode, name, operation, argument, cycles>>
ops_2 == {
    <<\hD5, "CMP Z,x", "CMP", <<"call", "_zero_page_x_value">>, 4>>,
    <<\hCD, "CMP A", "CMP", <<"call", "_load_addr_value">>, 4>>,
    <<\hDD, "CMP A,x", "CMP", <<"call", "_load_addr_x_value">>, 4>>,
    <<\hD9, "CMP A,y", "CMP", <<"call", "_load_addr_y_value">>, 4>>,
    <<\hC1, "CMP I,x", "CMP", <<"call", "_load_ix_value">>, 6>>,
    <<\hD1, "CMP I,y", "CMP", <<"call", "_load_iy_value">>, 5>>,
    <<\hE0, "CPX Im", "CPX", <<"call", "_load_im">>, 2>>,
    <<\hE4, "CPX Z", "CPX", <<"call", "_zero_page_value">>, 3>>,
    <<\hEC, "CPX A", "CPX", <<"call", "_load_addr_value">>, 4>>,
    <<\hC0, "CPY Im", "CPY", <<"call", "_load_im">>, 2>>,
    <<\hC4, "CPY Z", "CPY", <<"call", "_zero_page_value">>, 3>>,
    <<\hCC, "CPY A", "CPY", <<"call", "_load_addr_value">>, 4>>,
    <<\hC6, "DEC Z", "DEC", <<"call", "_zero_page">>, 5>>,
    <<\hD6, "DEC Z,x", "DEC", <<"call", "_zero_page_x">>, 6>>,
    <<\hCE, "DEC A", "DEC", <<"call", "_load_addr">>, 6>>,
    <<\hDE, "DEC A,x", "DEC", <<"call", "_load_addr_x">>, 7>>,
    <<\hCA, "DEX", "DEX", <<"call", "_implied">>, 2>>,
    <<\h88, "DEY", "DEY", <<"call", "_implied">>, 2>>,
    <<\h49, "EOR Im", "EOR", <<"call", "_load_im">>, 2>>,
    <<\h45, "EOR Z", "EOR", <<"call", "_zero_page_value">>, 3>>,
    <<\h55, "EOR Z,x", "EOR", <<"call", "_zero_page_x_value">>, 4>>,
    <<\h4D, "EOR A", "EOR", <<"call", "_load_addr_value">>, 4>>,
    <<\h5D, "EOR A,x", "EOR", <<"call", "_load_addr_x_value">>, 4>>,
    <<\h59, "EOR A,y", "EOR", <<"call", "_load_addr_y_value">>, 4>>,
    <<\h41, "EOR I,x", "EOR", <<"call", "_load_ix_value">>, 6>>,
    <<\h51, "EOR I,y", "EOR", <<"call", "_load_iy_value">>, 5>>,
    <<\hE6, "INC Z", "INC", <<"call", "_zero_page">>, 5>>,
    <<\hF6, "INC Z,x", "INC", <<"call", "_zero_page_x">>, 6>>,
    <<\hEE, "INC A", "INC", <<"call", "_load_addr">>, 6>>,
    <<\hFE, "INC A,x", "INC", <<"call", "_load_addr_x">>, 7>>,
    <<\hE8, "INX", "INX", <<"call", "_implied">>, 2>>,
    <<\hC8, "INY", "INY", <<"call", "_implied">>, 2>>,
    <<\h4C, "JMP A", "JMP", <<"call", "_load_addr">>, 3>>,
    <<\h6C, "JMP Ind", "JMP", <<"call", "_load_indirect">>, 5>>,
    <<\h20, "JSR A", "JSR", <<"call", "_load_addr">>, 6>>,
    <<\hA9, "LDA Im", "LDA", <<"call", "_load_im">>, 2>>,
    <<\hA5, "LDA Z", "LDA", <<"call", "_zero_page_value">>, 3>>,
    <<\hB5, "LDA Z,x", "LDA", <<"call", "_zero_page_x_value">>, 4>>
}

\* self._ops, cpu.py lines 250-295: <<opcode, name, operation, argument, cycles>>
ops_3 == {
    <<\hAD, "LDA A", "LDA", <<"call", "_load_addr_value">>, 4>>,
    <<\hBD, "LDA A,x", "LDA", <<"call", "_load_addr_x_value">>, 4>>,
    <<\hB9, "LDA A,y", "LDA", <<"call", "_load_addr_y_value">>, 4>>,
    <<\hA1, "LDA I,x", "LDA", <<"call", "_load_ix_value">>, 6>>,
    <<\hB1, "LDA I,y", "LDA", <<"call", "_load_iy_value">>, 5>>,
    <<\hA2, "LDX Im", "LDX", <<"call", "_load_im">>, 2>>,
    <<\hA6, "LDX Z", "LDX", <<"call", "_zero_page_value">>, 3>>,
    <<\hB6, "LDX Z,y", "LDX", <<"call", "_zero_page_y_value">>, 4>>,
    <<\hAE, "LDX A", "LDX", <<"call", "_load_addr_value">>, 4>>,
    <<\hBE, "LDX A,y", "LDX", <<"call", "_load_addr_y_value">>, 4>>,
    <<\hA0, "LDY Im", "LDY", <<"call", "_load_im">>, 2>>,
    <<\hA4, "LDY Z", "LDY", <<"call", "_zero_page_value">>, 3>>,
    <<\hB4, "LDY Z,x", "LDY", <<"call", "_zero_page_x_value">>, 4>>,
    <<\hAC, "LDY A", "LDY", <<"call", "_load_addr_value">>, 4>>,
    <<\hBC, "LDY A,x", "LDY", <<"call", "_load_addr_x_value">>, 4>>,
    <<\h4A, "LSR Acc", "LSR", <<"str", "a">>, 2>>,
    <<\h46, "LSR Z", "LSR", <<"call", "_zero_page">>, 5>>,
    <<\h56, "LSR Z,x", "LSR", <<"call", "_zero_page_x">>, 6>>,
    <<\h4E, "LSR A", "LSR", <<"call", "_load_addr">>, 6>>,
    <<\h5E, "LSR A,x", "LSR", <<"call", "_load_addr_x">>, 7>>,
    <<\hEA, "NOP", "NOP", <<"call", "_implied">>, 2>>,
    <<\h09, "ORA Im", "ORA", <<"call", "_load_im">>, 2>>,
    <<\h05, "ORA Z", "ORA", <<"call", "_zero_page_value">>, 3>>,
    <<\h15, "ORA Z,x", "ORA", <<"call", "_zero_page_x_value">>, 4>>,
    <<\h0D, "ORA A", "ORA", <<"call", "_load_addr_value">>, 4>>,
    <<\h1D, "ORA A,x", "ORA", <<"call", "_load_addr_x_value">>, 4>>,
    <<\h19, "ORA A,y", "ORA", <<"call", "_load_addr_y_value">>, 4>>,
    <<\h01, "ORA I,x", "ORA", <<"call", "_load_ix_value">>, 6>>,
    <<\h11, "ORA I,y", "ORA", <<"call", "_load_iy_value">>, 5>>,
    <<\h48, "PHA", "PHS", <<"attr", "a">>, 3>>,
    <<\h08, "PHP", "PHS", <<"attr", "p">>, 3>>,
    <<\h68, "PLA", "PLS", <<"str", "a">>, 4>>,
    <<\h28, "PLP", "PLS", <<"str", "p">>, 4>>,
    <<\h2A, "ROL Im", "ROL", <<"str", "a">>, 2>>,
    <<\h26, "ROL Z", "ROL", <<"call", "_zero_page">>, 5>>,
    <<\h36, "ROL Z,x", "ROL", <<"call", "_zero_page_x">>, 6>>,
    <<\h2E, "ROL A", "ROL", <<"call", "_load_addr">>, 6>>,
    <<\h3E, "ROL A,x", "ROL", <<"call", "_load_addr_x">>, 7>>
}

\* self._ops, cpu.py lines 297-341: <<opcode, name, operation, argument, cycles>>
ops_4 == {
    <<\h6A, "ROR Im", "ROR", <<"str", "a">>, 2>>,
    <<\h66, "ROR Z", "ROR", <<"call", "_zero_page">>, 5>>,
    <<\h76, "ROR Z,x", "ROR", <<"call", "_zero_page_x">>, 6>>,
    <<\h6E, "ROR A", "ROR", <<"call", "_load_addr">>, 6>>,
    <<\h7E, "ROR A,x", "ROR", <<"call", "_load_addr_x">>, 7>>,
    <<\h40, "RTI", "RTI", <<"call", "_implied">>, 6>>,
    <<\h60, "RTS", "RTS", <<"call", "_implied">>, 6>>,
    <<\h38, "SEC", "SET", <<"str", "C">>, 2>>,
    <<\hF8, "SED", "SET", <<"str", "D">>, 2>>,
    <<\h78, "SEI", "SET", <<"str", "I">>, 2>>,
    <<\hE9, "SBC Im", "SBC", <<"call", "_load_im">>, 2>>,
    <<\hE5, "SBC Z", "SBC", <<"call", "_zero_page_value">>, 3>>,
    <<\hF5, "SBC Z,x", "SBC", <<"call", "_zero_page_x_value">>, 4>>,
    <<\hED, "SBC A", "SBC", <<"call", "_load_addr_value">>, 4>>,
    <<\hFD, "SBC A,x", "SBC", <<"call", "_load_addr_x_value">>, 4>>,
    <<\hF9, "SBC A,y", "SBC", <<"call", "_load_addr_y_value">>, 4>>,
    <<\hE1, "SBC I,x", "SBC", <<"call", "_load_ix_value">>, 6>>,
    <<\hF1, "SBC I,y", "SBC", <<"call", "_load_iy_value">>, 5>>,
    <<\h85, "STA Z", "STA", <<"call", "_zero_page">>, 3>>,
    <<\h95, "STA Z,x", "STA", <<"call", "_zero_page_x">>, 4>>,
    <<\h8D, "STA A", "STA", <<"call", "_load_addr">>, 4>>,
    <<\h9D, "STA A,x", "STA", <<"call", "_load_addr_x">>, 5>>,
    <<\h99, "STA A,y", "STA", <<"call", "_load_addr_y">>, 5>>,
    <<\h81, "STA I,x", "STA", <<"call", "_load_ix">>, 6>>,
    <<\h91, "STA I,y", "STA", <<"call", "_load_iy">>, 6>>,
    <<\h86, "STX Z", "STX", <<"call", "_zero_page">>, 3>>,
    <<\h96, "STX, Z,y", "STX", <<"call", "_zero_page_y">>, 4>>,
    <<\h8E, "STX A", "STX", <<"call", "_load_addr">>, 4>>,
    <<\h84, "STY Z", "STY", <<"call", "_zero_page">>, 3>>,
    <<\h94, "STY Z,x", "STY", <<"call", "_zero_page_x">>, 4>>,
    <<\h8C, "STY A", "STY", <<"call", "_load_addr">>, 4>>,
    <<\hAA, "TAX", "TRA", <<"tuple", "a", "x">>, 2>>,
    <<\h8A, "TXA", "TRA", <<"tuple", "x", "a">>, 2>>,
    <<\hA8, "TAY", "TRA", <<"tuple", "a", "y">>, 2>>,
    <<\h98, "TYA", "TRA", <<"tuple", "y", "a">>, 2>>,
    <<\h9A, "TXS", "TRA", <<"tuple", "x", "s">>, 2>>,
    <<\hBA, "TSX", "TRA", <<"tuple", "s", "a">>, 2>>
}

\* self._ops
ops == ops_1 \cup ops_2 \cup ops_3 \cup ops_4

\* self._ops keyed by opcode
ops_by_code == [c \in {e[1] : e \in ops} |-> CHOOSE e \in ops : e[1] = c]

\* argument(): calling a bound method, <<"call", name>>, runs the addressing
\* mode; calling a str, a tuple or an int raises TypeError and step() then
\* passes the object itself.  <<"attr", a>> is the int that self.r.a held
\* when the table was built.  The result is m with additional_value in arg.
Argument(m, argument) ==
    LET int(m1) == [m |-> m1, arg |-> <<"int", m1.v>>]
        mode == argument[2]
    IN  IF argument[1] = "call"
        THEN CASE mode = "_load_im" -> int(_load_im(m))
               [] mode = "_zero_page" -> int(_zero_page(m))
               [] mode = "_zero_page_value" -> int(_zero_page_value(m))
               [] mode = "_zero_page_x" -> int(_zero_page_x(m))
               [] mode = "_zero_page_x_value" -> int(_zero_page_x_value(m))
               [] mode = "_zero_page_y" -> int(_zero_page_y(m))
               [] mode = "_zero_page_y_value" -> int(_zero_page_y_value(m))
               [] mode = "_load_addr" -> int(_load_addr(m))
               [] mode = "_load_addr_value" -> int(_load_addr_value(m))
               [] mode = "_load_addr_x" -> int(_load_addr_x(m))
               [] mode = "_load_addr_x_value" -> int(_load_addr_x_value(m))
               [] mode = "_load_addr_y" -> int(_load_addr_y(m))
               [] mode = "_load_addr_y_value" -> int(_load_addr_y_value(m))
               [] mode = "_load_ix" -> int(_load_ix(m))
               [] mode = "_load_ix_value" -> int(_load_ix_value(m))
               [] mode = "_load_iy" -> int(_load_iy(m))
               [] mode = "_load_iy_value" -> int(_load_iy_value(m))
               [] mode = "_load_indirect" -> int(_load_indirect(m))
               [] mode = "_implied" -> [m |-> _implied(m), arg |-> <<"none">>]
        ELSE IF argument[1] = "attr"
        THEN [m |-> m,
              arg |-> <<"int", IF mode = "a" THEN ops_pha ELSE ops_php>>]
        ELSE [m |-> m, arg |-> argument]

\* instruction(additional_value)
Execute(m, instruction, arg) ==
    CASE instruction = "ADC" -> ADC(m, arg) [] instruction = "AND" -> AND(m, arg)
      [] instruction = "ASL" -> ASL(m, arg) [] instruction = "BRA" -> BRA(m, arg)
      [] instruction = "BIT" -> BIT(m, arg) [] instruction = "BRK" -> BRK(m, arg)
      [] instruction = "CLR" -> CLR(m, arg) [] instruction = "CMP" -> CMP(m, arg)
      [] instruction = "CPX" -> CPX(m, arg) [] instruction = "CPY" -> CPY(m, arg)
      [] instruction = "DEC" -> DEC(m, arg) [] instruction = "DEX" -> DEX(m, arg)
      [] instruction = "DEY" -> DEY(m, arg) [] instruction = "EOR" -> EOR(m, arg)
      [] instruction = "INC" -> INC(m, arg) [] instruction = "INX" -> INX(m, arg)
      [] instruction = "INY" -> INY(m, arg) [] instruction = "JMP" -> JMP(m, arg)
      [] instruction = "JSR" -> JSR(m, arg) [] instruction = "LDA" -> LDA(m, arg)
      [] instruction = "LDX" -> LDX(m, arg) [] instruction = "LDY" -> LDY(m, arg)
      [] instruction = "LSR" -> LSR(m, arg) [] instruction = "NOP" -> NOP(m, arg)
      [] instruction = "ORA" -> ORA(m, arg) [] instruction = "PHS" -> PHS(m, arg)
      [] instruction = "PLS" -> PLS(m, arg) [] instruction = "ROL" -> ROL(m, arg)
      [] instruction = "ROR" -> ROR(m, arg) [] instruction = "RTI" -> RTI(m, arg)
      [] instruction = "RTS" -> RTS(m, arg) [] instruction = "SBC" -> SBC(m, arg)
      [] instruction = "SET" -> SET(m, arg) [] instruction = "STA" -> STA(m, arg)
      [] instruction = "STX" -> STX(m, arg) [] instruction = "STY" -> STY(m, arg)
      [] instruction = "TRA" -> TRA(m, arg)

\* step without the cycles of the instruction
stepNoCycles(m) ==
    Let(read_byte(m), LAMBDA m1 :
        IF m1.err # "none" THEN m1
        ELSE IF m1.v \notin DOMAIN ops_by_code
        THEN [m1 EXCEPT !.err = "KeyError"]
        ELSE Let(ops_by_code[m1.v], LAMBDA entry :
             Let(Argument(m1, entry[4]), LAMBDA got :
                 IF got.m.err # "none" THEN got.m
                 ELSE Execute(got.m, entry[3], got.arg))))

\* step with the table looked up before PC moves past the opcode
stepLookupFirst(m) ==
    Let(read_byte(m), LAMBDA m1 :
        IF m1.err # "none" THEN m1
        ELSE IF m1.v \notin DOMAIN ops_by_code
        THEN [m EXCEPT !.err = "KeyError"]
        ELSE Let(ops_by_code[m1.v], LAMBDA entry :
             Let(Argument(m1, entry[4]), LAMBDA got :
                 IF got.m.err # "none" THEN got.m
                 ELSE Let(Execute(got.m, entry[3], got.arg), LAMBDA m3 :
                          IF m3.err # "none" THEN m3
                          ELSE [m3 EXCEPT !.cycles = @ + entry[5]]))))

\* Processor.step: self._ops[opcode] raises KeyError for a byte that is no
\* key; the cycles are counted only when nothing was raised
step(m) ==
    Let(read_byte(m), LAMBDA m1 :
        IF m1.err # "none" THEN m1
        ELSE IF m1.v \notin DOMAIN ops_by_code
        THEN [m1 EXCEPT !.err = "KeyError"]
        ELSE Let(ops_by_code[m1.v], LAMBDA entry :
             Let(Argument(m1, entry[4]), LAMBDA got :
                 IF got.m.err # "none" THEN got.m
                 ELSE Let(Execute(got.m, entry[3], got.arg), LAMBDA m3 :
                          IF m3.err # "none" THEN m3
                          ELSE [m3 EXCEPT !.cycles = @ + entry[5]]))))

\* __init__ without the two cycles of the vector read
ProcessorNoVectorCycles(m, program_counter) ==
    LET m0 == [m EXCEPT !.cycles = 0 + 7]
        m1 == [m0 EXCEPT !.r = Registers(interrupts["RESET"])]
        m2 == read_byte(m1)
        m3 == read_byte(m2)
        addr == (m3.v * 256) + m2.v
    IN  IF program_counter # <<>>
        THEN [m0 EXCEPT !.r = Registers(program_counter[1])]
        ELSE IF m3.err # "none" THEN m3
        ELSE [m3 EXCEPT !.r.pc = addr]

\* Processor.__init__; program_counter is <<pc>>, or <<>> for None
Processor(m, program_counter) ==
    LET m0 == [m EXCEPT !.cycles = 0 + 7]
        m1 == [m0 EXCEPT !.r = Registers(interrupts["RESET"])]
        m2 == read_byte(m1)
        m3 == read_byte(m2)
        addr == (m3.v * 256) + m2.v
    IN  IF program_counter # <<>>
        THEN [m0 EXCEPT !.r = Registers(program_counter[1])]
        ELSE IF m3.err # "none" THEN m3
        ELSE [m3 EXCEPT !.cycles = @ + 2, !.r.pc = addr]

(***************************************************************************)
(* The calls a host makes, one action each.  Every action runs the whole   *)
(* method on the machine record built from the variables and stores what   *)
(* the method left behind, whether it returned or raised.                  *)
(***************************************************************************)
\* most calls made to the MMU directly in one behaviour
MaxMmuCalls == 2
\* most calls made in one behaviour
MaxCalls == 4
\* add_block inputs: start addresses 0..MaxStart and TopStart, lengths
\* 1..MaxLen
MaxStart == 2
MaxLen == 3
\* a start address from which short blocks reach the end of the array
TopStart == \hFFFD
\* Processor.__init__'s default stack_page
DefaultStackPage == 1

Machine ==
    [memory |-> memory, read_only |-> read_only, blocks |-> blocks,
     r |-> r, cycles |-> cycles, err |-> "none", v |-> 0]

Pre ==
    [memory |-> memory, read_only |-> read_only, blocks |-> blocks,
     r |-> r, cycles |-> cycles, cpu |-> cpu]

Call(name, args, m) ==
    [name |-> name, args |-> args, ret |-> m.v, err |-> m.err, pre |-> Pre]

Commit(name, args, m) ==
    /\ memory' = m.memory
    /\ read_only' = m.read_only
    /\ blocks' = m.blocks
    /\ r' = m.r
    /\ cycles' = m.cycles
    /\ hist' = IF hist = <<>> THEN <<Call(name, args, m)>>
               ELSE <<hist[Len(hist)], Call(name, args, m)>>
    /\ ncalls' = ncalls + 1

BlockStarts == (0..MaxStart) \cup {TopStart}

BlockLens == 1..MaxLen

DataBytes == {\h00, \hEA}

\* data of the block's length, or none
BlockData(length) == {<<>>} \cup {[i \in 1..length |-> b] : b \in {\hEA}}

WriteAddrs == (0..MaxStart) \cup {TopStart, \hFFFF}

\* mmu.add_block(start_addr, length, name, read_only, data)
AddBlock ==
    /\ ncalls < MaxMmuCalls
    /\ \E start_addr \in BlockStarts, length \in BlockLens,
          ro \in BOOLEAN, data \in UNION {BlockData(l) : l \in BlockLens} :
          /\ data \in BlockData(length)
          /\ Commit("add_block", <<start_addr, length, ro, data>>,
                    MmuAddBlock(Machine, start_addr, length, "BLK", ro, data))
    /\ UNCHANGED <<cpu, stack_page, ops_pha, ops_php>>

\* mmu.write(addr, value)
Write ==
    /\ ncalls < MaxMmuCalls
    /\ \E addr \in WriteAddrs, value \in DataBytes :
          Commit("write", <<addr, value>>, MmuWrite(Machine, addr, value))
    /\ UNCHANGED <<cpu, stack_page, ops_pha, ops_php>>

\* mmu.read(addr)
Read ==
    /\ ncalls < MaxMmuCalls
    /\ \E addr \in WriteAddrs :
          Commit("read", <<addr>>, MmuRead(Machine, addr))
    /\ UNCHANGED <<cpu, stack_page, ops_pha, ops_php>>

\* MMU.__init__ with no blocks; no Processor yet
InitMMU ==
    /\ memory = <<>>
    /\ read_only = {}
    /\ blocks = <<>>
    /\ cpu = "none"
    /\ r = Registers(0)
    /\ cycles = 0
    /\ stack_page = DefaultStackPage
    /\ ops_pha = 0
    /\ ops_php = 0
    /\ hist = <<>>
    /\ ncalls = 0

NextMMU == AddBlock \/ Write \/ Read

SpecMMU == InitMMU /\ [][NextMMU]_vars

(***************************************************************************)
(* The processor's life: an MMU built around a program, a Processor        *)
(* constructed on it, then step() and r.reset() in any order.              *)
(***************************************************************************)
\* most instructions in a program image
ProgLen == 2

\* MMU.__init__(blocks): add_block for each block in turn
RECURSIVE AddBlocks(_, _)
AddBlocks(m, blks) ==
    IF blks = <<>> THEN m
    ELSE AddBlocks(MmuAddBlock(m, blks[1][1], blks[1][2], blks[1][3],
                               blks[1][4], blks[1][5]),
                   Tail(blks))

MMU(blks) ==
    AddBlocks([memory |-> <<>>, read_only |-> {}, blocks |-> <<>>,
               r |-> Registers(0), cycles |-> 0, err |-> "none", v |-> 0],
              blks)

\* where a program image is loaded: page zero, a RAM page, and the top of
\* the array, where the image's first two bytes are the reset vector too
ProgBases == {\h0000, \h0200, \hFFFC}

\* the instructions programs are made of, for an image loaded at base:
\* RTI, PLP, PHP, PLA, SEC, SED with LDA #$99, ADC #$99, BPL -128,
\* BPL +127, JSR base+3, RTS, NOP, BRK and $FF, which is no opcode
Instrs(base) ==
    {<<\h40>>, <<\h28>>, <<\h08>>, <<\h68>>, <<\h38>>,
     <<\hF8, \hA9, \h99>>, <<\h69, \h99>>, <<\h10, \h80>>, <<\h10, \h7F>>,
     <<\h20, (base + 3) % 256, (base + 3) \div 256>>, <<\h60>>,
     <<\hEA>>, <<\h00>>, <<\hFF>>}

\* the images of at most n instructions
RECURSIVE Programs(_, _)
Programs(instrs, n) ==
    IF n = 0 THEN {<<>>}
    ELSE LET shorter == Programs(instrs, n - 1)
         IN  shorter \cup {i \o q : i \in instrs, q \in shorter}

\* the MMU a host builds around a program: one writable block holding it
Loaded(base, image) == MMU(<<<<base, Len(image), "PRG", FALSE, image>>>>)

Init ==
    \E base \in ProgBases :
      \E image \in Programs(Instrs(base), ProgLen) :
        /\ Loaded(base, image).err = "none"
        /\ memory = Loaded(base, image).memory
        /\ read_only = Loaded(base, image).read_only
        /\ blocks = Loaded(base, image).blocks
        /\ cpu = "none"
        /\ r = Registers(0)
        /\ cycles = 0
        /\ stack_page = DefaultStackPage
        /\ ops_pha = 0
        /\ ops_php = 0
        /\ hist = <<>>
        /\ ncalls = 0

\* Processor(mmu, program_counter): with the address of a block, or None
Construct ==
    /\ cpu = "none"
    /\ ncalls < MaxCalls
    /\ \E program_counter \in {<<>>} \cup {<<blocks[k].start>> : k \in 1..Len(blocks)} :
          LET m == Processor(Machine, program_counter)
          IN  /\ Commit("Processor", program_counter, m)
              /\ cpu' = IF m.err = "none" THEN "built" ELSE cpu
              /\ ops_pha' = m.r.a
              /\ ops_php' = m.r.p
    /\ UNCHANGED stack_page

\* cpu.step()
Step ==
    /\ cpu = "built"
    /\ ncalls < MaxCalls
    /\ Commit("step", <<>>, step(Machine))
    /\ UNCHANGED <<cpu, stack_page, ops_pha, ops_php>>

ResetPCs == {\h8000}

\* cpu.r.reset(program_counter)
Reset ==
    /\ cpu = "built"
    /\ ncalls < MaxCalls
    /\ \E program_counter \in ResetPCs :
          Commit("reset", <<program_counter>>,
                 [Machine EXCEPT !.r = reset(r, program_counter)])
    /\ UNCHANGED <<cpu, stack_page, ops_pha, ops_php>>

Next == Construct \/ Step \/ Reset

Spec == Init /\ [][Next]_vars

(***************************************************************************)
(* The stack, used by a host directly: a Processor constructed at $0200 on *)
(* an MMU whose stack page is one writable block, then stack_push(value),  *)
(* stack_push_word(value) and stack_pull() in any order.                   *)
(***************************************************************************)
StackBytes == {\h00, \h42}

StackWords == {\h1234}

\* the stack page as the host fills it: left zeroed, or every cell 7
StackImages == {<<>>, [i \in 1..\h100 |-> 7]}

InitStack ==
    \E image \in StackImages :
      LET mmu == MMU(<<<<DefaultStackPage * \h100, \h100, "STACK", FALSE, image>>>>)
          m == Processor(mmu, <<\h0200>>)
      IN  /\ memory = m.memory
          /\ read_only = m.read_only
          /\ blocks = m.blocks
          /\ cpu = "built"
          /\ r = m.r
          /\ cycles = m.cycles
          /\ stack_page = DefaultStackPage
          /\ ops_pha = m.r.a
          /\ ops_php = m.r.p
          /\ hist = <<>>
          /\ ncalls = 0

\* cpu.stack_push(value)
StackPush ==
    /\ ncalls < MaxCalls
    /\ \E value \in StackBytes :
          Commit("stack_push", <<value>>, stack_push(Machine, value))
    /\ UNCHANGED <<cpu, stack_page, ops_pha, ops_php>>

\* cpu.stack_pull()
StackPull ==
    /\ ncalls < MaxCalls
    /\ Commit("stack_pull", <<>>, stack_pull(Machine))
    /\ UNCHANGED <<cpu, stack_page, ops_pha, ops_php>>

\* cpu.stack_push_word(value)
StackPushWord ==
    /\ ncalls < MaxCalls
    /\ \E value \in StackWords :
          Commit("stack_push_word", <<value>>, stack_push_word(Machine, value))
    /\ UNCHANGED <<cpu, stack_page, ops_pha, ops_php>>

NextStack == StackPush \/ StackPull \/ StackPushWord

SpecStack == InitStack /\ [][NextStack]_vars

(***************************************************************************)
(* Stores into ROM: an MMU with read-only blocks of data at $0001 and at   *)
(* $0300 and a program in RAM at $0200, written to by the host through     *)
(* mmu.write and by the program's store instruction.                       *)
(***************************************************************************)
\* where the stores go: $0000 is outside the ROM, $0001 and $0002 inside
StoreTargets == {\h00, \h01, \h02}

\* STA a, STX a, STY a, STA zp and STA a,x on a target; LDX #$04 with
\* STA $02FC,x, which stores at $0300, and with ASL $02FC,x
StoreInstrs ==
    UNION {{<<\h8D, t, \h00>>, <<\h8E, t, \h00>>, <<\h8C, t, \h00>>,
            <<\h85, t>>, <<\h9D, t, \h00>>} : t \in StoreTargets}
    \cup {<<\hA2, \h04, \h9D, \hFC, \h02>>, <<\hA2, \h04, \h1E, \hFC, \h02>>}

RomData == <<\hEA, \hEA>>

\* a read-only byte at the start of page 3
RomPage == <<\h0300, 1, "PAGE", TRUE, <<\h01>>>>

InitStore ==
    \E image \in StoreInstrs :
      LET mmu == MMU(<<<<\h0001, Len(RomData), "ROM", TRUE, RomData>>,
                       RomPage,
                       <<\h0200, Len(image), "PRG", FALSE, image>>>>)
      IN  /\ memory = mmu.memory
          /\ read_only = mmu.read_only
          /\ blocks = mmu.blocks
          /\ cpu = "none"
          /\ r = Registers(0)
          /\ cycles = 0
          /\ stack_page = DefaultStackPage
          /\ ops_pha = 0
          /\ ops_php = 0
          /\ hist = <<>>
          /\ ncalls = 0

NextStore == Construct \/ Step \/ Write

SpecStore == InitStore /\ [][NextStore]_vars

(***************************************************************************)
(* Instructions one at a time: a Processor constructed at $0200 on a       *)
(* program that sets C and D, loads A, X and Y and then executes one       *)
(* instruction, with data in page zero, on the stack and at $3000; the     *)
(* host calls step(), and r.ZN(value) as the tests do.                     *)
(***************************************************************************)
\* most calls made in one run of such a program
MaxSteps == 6

\* r.ZN is called by the host among the first calls only
MaxZNCalls == 1

\* operand bytes
AluBytes == {\h00, \h01, \h27, \h61, \h7F, \h80, \h99, \hFF}

\* what the program loads into A, X and Y
Presets ==
    {<<\h00, \h00, \h00>>, <<\h15, \h01, \h02>>, <<\h7F, \hFF, \h01>>,
     <<\h80, \h7F, \h80>>, <<\h99, \h02, \hFF>>, <<\hFF, \h80, \h7F>>}

\* nothing, SEC, SED, or SED and SEC
FlagSetups == {<<>>, <<\h38>>, <<\hF8>>, <<\hF8, \h38>>}

\* LDA #a, LDX #x, LDY #y
LoadRegisters(preset) ==
    <<\hA9, preset[1], \hA2, preset[2], \hA0, preset[3]>>

\* page zero: bytes to shift at $10..$13, pointers to $02FE and $02FF at
\* $20 and $22, the low byte of a pointer in its last cell; the stack: the
\* byte the first pull returns; the pointers of JMP ($3000) and JMP ($30FF)
ZeroPageData == <<\h0010, 4, "DATA", FALSE, <<\h01, \h40, \h80, \hFF>>>>

ZeroPagePointers == <<\h0020, 4, "PTR", FALSE, <<\hFE, \h02, \hFF, \h02>>>>

ZeroPageTop == <<\h00FF, 1, "TOP", FALSE, <<\h10>>>>

StackTop == <<\h0100, 1, "STACK", FALSE, <<\h80>>>>

JumpVector == <<\h3000, 2, "VEC", FALSE, <<\h12, \h80>>>>

JumpVectorAcross == <<\h30FF, 2, "VECX", FALSE, <<\h34, \h56>>>>

\* branch offsets: forward within the page, and back over its start
Offsets == {\h10, \hF5}

\* the instruction after the loads: the immediate forms of LDA, LDX, LDY,
\* AND, ORA, EOR, ADC, SBC, CMP, CPX, CPY; ASL, LSR, ROL, ROR on A; INX,
\* INY, DEX, DEY, PLA, PHA, PHP; ASL, LSR, ROL, ROR, INC, DEC on page zero;
\* LDA a,x, LDA a,y, LDX a,y, STA a,y, LDA (zp),y and STA (zp),y around a
\* page boundary; the eight branches; JMP through a pointer; TAX, TXA, TAY,
\* TYA, TXS, TSX, and TSX after TXS; RTI, BRK, and RTI after BRK
Tested ==
    {<<op, v>> : op \in {\hA9, \hA2, \hA0, \h29, \h09, \h49, \h69, \hE9,
                         \hC9, \hE0, \hC0},
                 v \in AluBytes}
    \cup {<<op>> : op \in {\h0A, \h4A, \h2A, \h6A, \hE8, \hC8, \hCA, \h88, \h68,
                           \h48, \h08}}
    \cup {<<op, zp>> : op \in {\h06, \h46, \h26, \h66, \hE6, \hC6},
                       zp \in \h10..\h13}
    \cup {<<op, lo, hi>> : op \in {\hBD, \hB9, \hBE, \h99},
                           lo \in {\hFE, \hFF}, hi \in {\h00, \h02}}
    \cup {<<op, zp>> : op \in {\hB1, \h91}, zp \in {\h20, \h22, \hFF}}
    \cup {<<op, offset>> : op \in {\h10, \h30, \h50, \h70, \h90, \hB0, \hD0,
                                   \hF0},
                           offset \in Offsets}
    \cup {<<\h6C, \h00, \h30>>, <<\h6C, \hFF, \h30>>, <<\h6C, \hFE, \hFF>>}
    \cup {<<op>> : op \in {\hAA, \h8A, \hA8, \h98, \h9A, \hBA, \h40, \h00}}
    \cup {<<\h9A, \hBA>>, <<\h00, \h40>>}

InitAlu ==
    \E flags \in FlagSetups, preset \in Presets, instr \in Tested :
      LET image == flags \o LoadRegisters(preset) \o instr
          mmu == MMU(<<ZeroPageData, ZeroPagePointers, ZeroPageTop, StackTop,
                       JumpVector, JumpVectorAcross,
                       <<\h0200, Len(image), "PRG", FALSE, image>>>>)
          m == Processor(mmu, <<\h0200>>)
      IN  /\ memory = m.memory
          /\ read_only = m.read_only
          /\ blocks = m.blocks
          /\ cpu = "built"
          /\ r = m.r
          /\ cycles = m.cycles
          /\ stack_page = DefaultStackPage
          /\ ops_pha = m.r.a
          /\ ops_php = m.r.p
          /\ hist = <<>>
          /\ ncalls = 0

\* cpu.step(), in a run of the whole program
Run ==
    /\ cpu = "built"
    /\ ncalls < MaxSteps
    /\ Commit("step", <<>>, step(Machine))
    /\ UNCHANGED <<cpu, stack_page, ops_pha, ops_php>>

\* the values of test_ZN, and bytes and integers beyond a byte
ZNValues == {0, -10, 24, \h80, \hFF, \h100, -\h80, -\h100}

\* cpu.r.ZN(value)
CallZN ==
    /\ cpu = "built"
    /\ ncalls < MaxZNCalls
    /\ \E value \in ZNValues : Commit("ZN", <<value>>, ZN(Machine, value))
    /\ UNCHANGED <<cpu, stack_page, ops_pha, ops_php>>

NextAlu == Run \/ CallZN

SpecAlu == InitAlu /\ [][NextAlu]_vars

(***************************************************************************)
(* Properties.  hist holds the last two calls, so what a call did is a     *)
(* predicate of the state it left.                                         *)
(***************************************************************************)
Called == hist # <<>>

Last == hist[Len(hist)]

\* the byte a step() fetches as its opcode
Fetched(call) == Cell(call.pre.memory, Index(call.pre.r.pc))

\* both calls of hist are step() calls that returned
TwoSteps ==
    /\ Len(hist) = 2
    /\ hist[1].name = "step" /\ hist[1].err = "none"
    /\ hist[2].name = "step" /\ hist[2].err = "none"

\* the open interiors of [s1, s1 + l1) and [s2, s2 + l2) intersect
Overlap(s1, l1, s2, l2) ==
    (IF s1 >= s2 THEN s1 ELSE s2) < Min(s1 + l1, s2 + l2)

\* the last call is add_block of a region that overlaps a block allocated
\* before it
AddsOverlapping ==
    /\ Called /\ Last.name = "add_block"
    /\ \E k \in 1..Len(Last.pre.blocks) :
          Overlap(Last.args[1], Last.args[2],
                  Last.pre.blocks[k].start, Last.pre.blocks[k].length)

\* the last call is add_block of a region that overlaps no block allocated
\* before it
AddsDisjoint ==
    /\ Called /\ Last.name = "add_block"
    /\ \A k \in 1..Len(Last.pre.blocks) :
          ~Overlap(Last.args[1], Last.args[2],
                   Last.pre.blocks[k].start, Last.pre.blocks[k].length)

\* C1: in every state reached by constructing a Processor and then calling
\* step() any number of times, bit 5 of the status register P is 1.
C1_UnusedBitSet ==
    cpu = "built" => BitAnd(r.p, flagbyte["?"]) = flagbyte["?"]

\* C2: in every state reached by constructing a Processor and then calling
\* step() any number of times, A, X, Y and SP each hold a value in 0..255,
\* the accumulator after a decimal-mode ADC included.
C2_ByteRegisters ==
    cpu = "built" =>
        /\ r.a \in 0..255
        /\ r.x \in 0..255
        /\ r.y \in 0..255
        /\ r.sp \in 0..255

\* C3: in every state reached by constructing a Processor with a PC in
\* 0..65535 and then calling step() any number of times, PC is in 0..65535,
\* also after a taken branch backwards near 0 or forwards near $FFFF.
C3_ProgramCounter ==
    cpu = "built" => r.pc \in 0..65535

\* C4: stack_push(b) immediately followed by stack_pull() returns b and
\* leaves SP at the value it had before the push.
C4_PushPull ==
    (/\ Len(hist) = 2
     /\ hist[1].name = "stack_push" /\ hist[1].err = "none"
     /\ hist[2].name = "stack_pull" /\ hist[2].err = "none")
    => /\ hist[2].ret = hist[1].args[1]
       /\ r.sp = hist[1].pre.r.sp

\* C5: a step() that executes JSR at address p, followed by a step() that
\* executes RTS at the JSR's target, leaves PC = p + 3 and SP at the value
\* it had before the JSR.
C5_JsrRts ==
    (/\ TwoSteps
     /\ Fetched(hist[1]) = \h20
     /\ Fetched(hist[2]) = \h60)
    => /\ r.pc = hist[1].pre.r.pc + 3
       /\ r.sp = hist[1].pre.r.sp

\* C6: a step() that fetches a byte that is no key of the opcode table fails
\* with InvalidInstructionError and with no other error.
C6_InvalidInstruction ==
    (/\ Called /\ Last.name = "step"
     /\ Index(Last.pre.r.pc) # -1
     /\ Fetched(Last) \notin DOMAIN ops_by_code)
    => Last.err = "InvalidInstructionError"

\* C7: Processor(mmu, pc) leaves PC = pc and cycles = 7; Processor(mmu)
\* leaves PC = MMU[$FFFC] + 256 * MMU[$FFFD] and cycles = 9; neither writes
\* memory.
C7_Construction ==
    (Called /\ Last.name = "Processor" /\ Last.err = "none")
    => /\ memory = Last.pre.memory
       /\ IF Last.args # <<>>
          THEN r.pc = Last.args[1] /\ cycles = 7
          ELSE /\ r.pc = Cell(Last.pre.memory, \hFFFC)
                         + 256 * Cell(Last.pre.memory, \hFFFD)
               /\ cycles = 9

\* a Processor constructed from a reset vector with both bytes nonzero
C7_VectorRead ==
    /\ Called /\ Last.name = "Processor" /\ Last.err = "none"
    /\ Last.args = <<>>
    /\ Cell(Last.pre.memory, \hFFFC) # 0
    /\ Cell(Last.pre.memory, \hFFFD) # 0
    /\ cycles = 9

\* C8: r.reset(pc), after any number of step() calls, leaves A = X = Y = 0,
\* SP = $FF, P = %00100100 and PC = pc; the Registers a Processor is
\* constructed with hold the same.
C8_Reset ==
    (/\ Called /\ Last.err = "none"
     /\ \/ Last.name = "reset"
        \/ Last.name = "Processor" /\ Last.args # <<>>)
    => /\ r.a = 0 /\ r.x = 0 /\ r.y = 0
       /\ r.sp = \hFF
       /\ r.p = \h24
       /\ r.pc = Last.args[1]

\* a reset of registers that steps had left with other values in A, SP, P
C8_ResetAfterSteps ==
    /\ Called /\ Last.name = "reset"
    /\ Last.pre.r.a # 0
    /\ Last.pre.r.sp # \hFF
    /\ Last.pre.r.p # \h24
    /\ Last.pre.r.pc # Last.args[1]
    /\ r.a = 0

\* C9: add_block of a region whose interior intersects that of an allocated
\* region (identical and containing regions included) fails with
\* MemoryRangeError and changes neither the block list, nor memory, nor the
\* read-only marks; so no two blocks of the list ever overlap.
C9_OverlapRejected ==
    /\ AddsOverlapping =>
          /\ Last.err = "MemoryRangeError"
          /\ blocks = Last.pre.blocks
          /\ memory = Last.pre.memory
          /\ read_only = Last.pre.read_only
    /\ \A i, j \in 1..Len(blocks) :
          i # j => ~Overlap(blocks[i].start, blocks[i].length,
                            blocks[j].start, blocks[j].length)

\* C10: add_block of a region that overlaps no allocated region succeeds:
\* its descriptor is appended to the block list, given data are found at
\* memory[start + i] for every 0 <= i < length, and every address outside
\* the region keeps its content.
C10_DisjointAdded ==
    AddsDisjoint =>
        LET start_addr == Last.args[1]
            length == Last.args[2]
            data == Last.args[4]
            region == start_addr..(start_addr + length - 1)
        IN  /\ Last.err = "none"
            /\ blocks = Append(Last.pre.blocks,
                               [start |-> start_addr, length |-> length,
                                name |-> "BLK", read_only |-> Last.args[3]])
            /\ data # <<>> =>
                  \A i \in 0..(length - 1) :
                      Cell(memory, start_addr + i) = data[i + 1]
            /\ \A a \in ((DOMAIN memory) \cup (DOMAIN Last.pre.memory)) \ region :
                  Cell(memory, a) = Cell(Last.pre.memory, a)

\* an address inside a block of blks that was added read-only
InReadOnlyBlock(blks, addr) ==
    \E k \in 1..Len(blks) :
        /\ blks[k].read_only
        /\ blks[k].start <= addr
        /\ addr < blks[k].start + blks[k].length

\* the machine a call started from
Before(call) ==
    [memory |-> call.pre.memory, read_only |-> call.pre.read_only,
     blocks |-> call.pre.blocks, r |-> call.pre.r, cycles |-> call.pre.cycles,
     err |-> "none", v |-> 0]

\* the table entry of the opcode a step() fetched
Entry(call) == ops_by_code[Fetched(call)]

\* the last call is a step() that fetched an opcode of the table
Stepped ==
    /\ Called /\ Last.name = "step"
    /\ Index(Last.pre.r.pc) # -1
    /\ Fetched(Last) \in DOMAIN ops_by_code

\* what a step() passed to its instruction: the result of the addressing mode
Operand(call) == Argument(read_byte(Before(call)), Entry(call)[4])

\* C11: mmu.write(addr, value) to an address inside a block added with
\* read_only=True fails with ReadOnlyError and changes no byte of memory;
\* a step() whose STA, STX or STY stores to such an address fails with
\* ReadOnlyError too, and leaves memory, A, X, Y, SP and P as they were.
C11_ReadOnlyWrite ==
    /\ (/\ Called /\ Last.name = "write"
        /\ InReadOnlyBlock(Last.pre.blocks, Last.args[1]))
       => /\ Last.err = "ReadOnlyError"
          /\ memory = Last.pre.memory
    /\ (/\ Stepped
        /\ Entry(Last)[3] \in {"STA", "STX", "STY"}
        /\ Operand(Last).m.err = "none"
        /\ InReadOnlyBlock(Last.pre.blocks, Operand(Last).arg[2]))
       => /\ Last.err = "ReadOnlyError"
          /\ memory = Last.pre.memory
          /\ r.a = Last.pre.r.a /\ r.x = Last.pre.r.x /\ r.y = Last.pre.r.y
          /\ r.sp = Last.pre.r.sp /\ r.p = Last.pre.r.p

\* a write by the host and then a store by the program, both into the ROM
C11_BothRefused ==
    /\ Len(hist) = 2
    /\ hist[1].name = "write" /\ hist[1].err = "ReadOnlyError"
    /\ hist[1].args[2] # Cell(hist[1].pre.memory, hist[1].args[1])
    /\ hist[2].name = "step" /\ hist[2].err = "ReadOnlyError"
    /\ Entry(hist[2])[3] = "STA"
    /\ Cell(memory, \h0001) = \hEA

\* an address outside every block of blks
Undeclared(blks, addr) ==
    \A k \in 1..Len(blks) :
        addr < blks[k].start \/ addr >= blks[k].start + blks[k].length

\* C12: for every address that is not read-only and every byte value,
\* write(addr, value) followed by read(addr) returns value, the write
\* changes no other address, and the read changes neither memory, nor the
\* read-only marks, nor the block list.
C12_WriteThenRead ==
    (/\ Len(hist) = 2
     /\ hist[1].name = "write" /\ hist[2].name = "read"
     /\ hist[1].args[1] \in 0..65535
     /\ hist[1].args[2] \in 0..255
     /\ hist[2].args[1] = hist[1].args[1]
     /\ ~Marked(hist[1].pre.read_only, hist[1].args[1]))
    => /\ hist[1].err = "none" /\ hist[2].err = "none"
       /\ hist[2].ret = hist[1].args[2]
       /\ \A a \in ((DOMAIN hist[1].pre.memory) \cup (DOMAIN hist[2].pre.memory))
                   \ {hist[1].args[1]} :
             Cell(hist[2].pre.memory, a) = Cell(hist[1].pre.memory, a)
       /\ memory = hist[2].pre.memory
       /\ read_only = hist[2].pre.read_only
       /\ blocks = hist[2].pre.blocks

\* C13: after any sequence of add_block and write calls, read(addr) returns
\* 0 for every address outside all declared regions.
C13_UndeclaredReadsZero ==
    (/\ Called /\ Last.name = "read"
     /\ Last.args[1] \in 0..65535
     /\ Undeclared(Last.pre.blocks, Last.args[1]))
    => /\ Last.err = "none"
       /\ Last.ret = 0

\* C14: read(addr) returns a byte for every address 0..65535, $FFFF
\* included, and never fails with an out-of-range error.
C14_Addressable ==
    (/\ Called /\ Last.name = "read"
     /\ Last.args[1] \in 0..65535)
    => /\ Last.err = "none"
       /\ Last.ret \in 0..255

\* C15: the memory array has exactly 0xFFFF cells, whatever add_block, read
\* and write calls were made: the indices up to $FFFE and down to -$FFFF
\* are those of a cell, $FFFF and -$10000 are out of range.
C15_MemoryLength ==
    /\ MmuRead(Machine, \hFFFE).err = "none"
    /\ MmuRead(Machine, \hFFFF).err = "IndexError"
    /\ MmuRead(Machine, -\hFFFF).err = "none"
    /\ MmuRead(Machine, -\h10000).err = "IndexError"

\* a read of $FFFF that raised, on an MMU a block with data was added to
C15_AfterCalls ==
    /\ Len(hist) = 2
    /\ hist[1].name = "add_block" /\ hist[1].err = "none"
    /\ hist[1].args[4] # <<>>
    /\ hist[2].name = "read" /\ hist[2].args[1] = \hFFFF
    /\ hist[2].err = "IndexError"

\* bit 7 of an integer in two's complement
Bit7(value) == (value \div 128) % 2 = 1

\* flag f of a status byte
Flag(p, f) == (p \div flagbyte[f]) % 2 = 1

\* the last call is a step() that executed its instruction to the end
Completed == Stepped /\ Last.err = "none"

\* what the instruction the last step() executed has computed: the register
\* it loads or changes, or the memory cell it shifts
Target ==
    LET instruction == Entry(Last)[3]
    IN  IF instruction \in {"LDX", "INX", "DEX"} THEN r.x
        ELSE IF instruction \in {"LDY", "INY", "DEY"} THEN r.y
        ELSE IF instruction \in {"ASL", "LSR", "ROL", "ROR"}
                /\ Entry(Last)[4][1] = "call"
        THEN Cell(memory, Index(Operand(Last).arg[2]))
        ELSE r.a

\* the instructions C16 is about; PLS with "a" is PLA
SetsZN ==
    \/ Entry(Last)[3] \in {"LDA", "LDX", "LDY", "AND", "ORA", "EOR", "ADC",
                           "SBC", "ASL", "LSR", "ROL", "ROR", "INX", "INY",
                           "DEX", "DEY"}
    \/ Entry(Last)[3] = "PLS" /\ Entry(Last)[4] = <<"str", "a">>

\* C16: after a completed load, logical, arithmetic, shift, rotate,
\* register increment or decrement, or PLA, Z is set iff the target is 0
\* and N iff bit 7 of the target is set; r.ZN(v) sets Z iff v = 0 and N iff
\* bit 7 of v is set, for negative v too, and changes no other flag.
C16_ZeroNegative ==
    /\ (Completed /\ SetsZN)
       => /\ Flag(r.p, "Z") <=> (Target = 0)
          /\ Flag(r.p, "N") <=> Bit7(Target)
    /\ (Called /\ Last.name = "ZN")
       => /\ Flag(r.p, "Z") <=> (Last.args[1] = 0)
          /\ Flag(r.p, "N") <=> Bit7(Last.args[1])
          /\ \A f \in {"V", "?", "B", "D", "I", "C"} :
                Flag(r.p, f) <=> Flag(Last.pre.r.p, f)

\* a shift of a memory cell that left bit 7 set in it, with D and C set
\* beforehand
C16_NegativeInMemory ==
    /\ Completed
    /\ Entry(Last)[3] = "ROR" /\ Entry(Last)[4][1] = "call"
    /\ Flag(Last.pre.r.p, "D") /\ Flag(Last.pre.r.p, "C")
    /\ Target >= \h80
    /\ Flag(r.p, "N") /\ ~Flag(r.p, "Z")

\* the byte that follows the opcode a step() fetched
Immediate(call) == Cell(call.pre.memory, Index(call.pre.r.pc + 1))

\* the register CMP, CPX or CPY compares with, as the step() found it
Compared(call) ==
    CASE Entry(call)[3] = "CMP" -> call.pre.r.a
      [] Entry(call)[3] = "CPX" -> call.pre.r.x
      [] Entry(call)[3] = "CPY" -> call.pre.r.y

\* C17: for a register value R and an operand v, both in 0..255, CMP, CPX
\* and CPY set C iff v <= R, Z iff R = v and N to bit 7 of (R - v) mod 256,
\* and change neither A, X, Y, SP, memory nor the flags V, D, I, B.
C17_Compare ==
    (/\ Completed
     /\ Fetched(Last) \in {\hC9, \hE0, \hC0}
     /\ Compared(Last) \in 0..255)
    => LET R == Compared(Last)
           v == Immediate(Last)
       IN  /\ Flag(r.p, "C") <=> (v <= R)
           /\ Flag(r.p, "Z") <=> (R = v)
           /\ Flag(r.p, "N") <=> Bit7((R - v) % 256)
           /\ r.a = Last.pre.r.a /\ r.x = Last.pre.r.x /\ r.y = Last.pre.r.y
           /\ r.sp = Last.pre.r.sp
           /\ memory = Last.pre.memory
           /\ \A f \in {"V", "D", "I", "B"} :
                 Flag(r.p, f) <=> Flag(Last.pre.r.p, f)

\* a CPX of a register below its operand, in decimal mode with C set: the
\* carry is cleared and the difference is negative as a byte
C17_Borrow ==
    /\ Completed
    /\ Fetched(Last) = \hE0
    /\ Compared(Last) < Immediate(Last)
    /\ Flag(Last.pre.r.p, "C") /\ Flag(Last.pre.r.p, "D")
    /\ ~Flag(r.p, "C") /\ Flag(r.p, "N") /\ Flag(r.p, "D")

\* C18: ADC with D clear, for A and v in 0..255 and carry C: A becomes
\* (A + v + C) mod 256, C is set iff A + v + C > 255, and V is bit 7 of
\* ~(A ^ v) & (A ^ A_post): set iff A and v agree in bit 7 and the new A
\* differs from them there.
C18_BinaryAdd ==
    (/\ Completed
     /\ Fetched(Last) = \h69
     /\ ~Flag(Last.pre.r.p, "D")
     /\ Last.pre.r.a \in 0..255)
    => LET A == Last.pre.r.a
           v == Immediate(Last)
           sum == A + v + (IF Flag(Last.pre.r.p, "C") THEN 1 ELSE 0)
       IN  /\ r.a = sum % 256
           /\ Flag(r.p, "C") <=> (sum > 255)
           /\ Flag(r.p, "V") <=> /\ Bit7(A) = Bit7(v)
                                 /\ Bit7(r.a) # Bit7(A)

\* a binary ADC with carry in that overflows the signed range: $7F + $01 + 1
C18_SignedOverflow ==
    /\ Completed
    /\ Fetched(Last) = \h69
    /\ ~Flag(Last.pre.r.p, "D") /\ Flag(Last.pre.r.p, "C")
    /\ Last.pre.r.a = \h7F /\ Immediate(Last) = \h01
    /\ r.a = \h81
    /\ Flag(r.p, "V") /\ ~Flag(r.p, "C")

\* the decimal number a BCD byte stands for
Dec(bcd) == (bcd \div 16) * 10 + (bcd % 16)

\* the BCD byte of a decimal number below 100
Bcd(dec) == (dec \div 10) * 16 + (dec % 10)

ValidBcd(byte) == byte \in 0..255 /\ byte \div 16 <= 9 /\ byte % 16 <= 9

\* C19: ADC with D set, for valid BCD bytes A and v and carry C, with
\* sum = dec(A) + dec(v) + C: C becomes sum > 99 and A the BCD byte of
\* sum mod 100.
C19_DecimalAdd ==
    (/\ Completed
     /\ Fetched(Last) = \h69
     /\ Flag(Last.pre.r.p, "D")
     /\ ValidBcd(Last.pre.r.a) /\ ValidBcd(Immediate(Last)))
    => LET sum == Dec(Last.pre.r.a) + Dec(Immediate(Last))
                  + (IF Flag(Last.pre.r.p, "C") THEN 1 ELSE 0)
       IN  /\ Flag(r.p, "C") <=> (sum > 99)
           /\ r.a = Bcd(sum % 100)

\* the 256-byte page of an address
Page(addr) == addr \div 256

\* the base address of an indexed read: the word after the opcode, or for
\* (zp),y the word the page-zero pointer holds
Base(call) ==
    LET mem == call.pre.memory
        pc == call.pre.r.pc
    IN  IF Entry(call)[4][2] \in {"_load_iy", "_load_iy_value"}
        THEN Cell(mem, Cell(mem, pc + 1))
             + 256 * Cell(mem, (Cell(mem, pc + 1) + 1) % 256)
        ELSE Cell(mem, pc + 1) + 256 * Cell(mem, pc + 2)

\* the index register of an indexed read
IndexRegister(call) ==
    IF Entry(call)[4][2] \in {"_load_addr_x", "_load_addr_x_value"}
    THEN call.pre.r.x
    ELSE call.pre.r.y

\* C20: a step() of an opcode in a,x, a,y or (zp),y mode with a page-cross
\* penalty adds base_cycles to the cycle counter when the base address and
\* the final address are in the same page, and base_cycles + 1 otherwise.
C20_PageCross ==
    (/\ Completed
     /\ Fetched(Last) \in {\hBD, \hB9, \hB1})
    => LET final == (Base(Last) + IndexRegister(Last)) % 65536
       IN  cycles - Last.pre.cycles
             = Entry(Last)[5]
               + (IF Page(Base(Last)) = Page(final) THEN 0 ELSE 1)


\* the cycles an addressing mode or a branch may add to an opcode's count
Penalties(call) ==
    IF Entry(call)[3] = "BRA" THEN {0, 1, 2}
    ELSE IF /\ Entry(call)[4][1] = "call"
            /\ Entry(call)[4][2] \in {"_load_addr_x", "_load_addr_x_value",
                                      "_load_addr_y", "_load_addr_y_value",
                                      "_load_iy", "_load_iy_value"}
    THEN {0, 1}
    ELSE {0}

\* C21: no step() call, completed or not, lowers the cycle counter the
\* construction left, and a completed step() adds the cycle count of its
\* opcode's table entry plus at most the penalty of a page crossing or of a
\* branch: LDA immediate adds exactly 2.
C21_CyclesGrow ==
    [][/\ cycles' >= cycles
       /\ Completed'
          => \E penalty \in Penalties(Last)' :
                cycles' = cycles + Entry(Last)[5]' + penalty]_vars

\* a program's last step() is an LDA immediate and has added 2 cycles to
\* the seven or more steps and construction had counted
C21_LoadImmediate ==
    /\ Completed
    /\ Fetched(Last) = \hA9
    /\ ncalls >= 4
    /\ Last.pre.cycles >= 13
    /\ cycles = Last.pre.cycles + 2


\* the address of stack cell sp
StackCell(sp) == stack_page * \h100 + sp

\* C22: stack_push(b) from SP = s stores b at stack_page * $100 + s and
\* leaves SP = (s - 1) mod 256; stack_pull() from SP = s leaves
\* SP = (s + 1) mod 256 and returns the byte at stack_page * $100 + SP;
\* stack_push_word(w) pushes the high byte of w and then the low byte.
C22_StackProtocol ==
    /\ (Called /\ Last.name = "stack_push")
       => /\ Last.err = "none"
          /\ Cell(memory, StackCell(Last.pre.r.sp)) = Last.args[1]
          /\ r.sp = (Last.pre.r.sp - 1) % 256
    /\ (Called /\ Last.name = "stack_pull")
       => /\ Last.err = "none"
          /\ r.sp = (Last.pre.r.sp + 1) % 256
          /\ Last.ret = Cell(Last.pre.memory, StackCell(r.sp))
    /\ (Called /\ Last.name = "stack_push_word")
       => /\ Last.err = "none"
          /\ Cell(memory, StackCell(Last.pre.r.sp)) = Last.args[1] \div 256
          /\ Cell(memory, StackCell((Last.pre.r.sp - 1) % 256))
               = Last.args[1] % 256
          /\ r.sp = (Last.pre.r.sp - 2) % 256


\* the signed value of an offset byte
SignExtend(offset) == IF offset >= \h80 THEN offset - \h100 ELSE offset

\* C23: a step() of a branch opcode always consumes the offset byte; when
\* the flag has the state the opcode tests, PC becomes the address after
\* the offset plus the signed offset, and the step adds 2 + 1 cycles, and
\* one more when that address and the new PC differ in their high byte;
\* otherwise PC is the address after the offset and the step adds 2 cycles.
C23_Branch ==
    (Stepped /\ Entry(Last)[3] = "BRA")
    => LET after == Last.pre.r.pc + 2
           new == after + SignExtend(Immediate(Last))
           taken == Flag(Last.pre.r.p, Entry(Last)[4][2]) = Entry(Last)[4][3]
       IN  /\ Last.err = "none"
           /\ r.pc = IF taken THEN new ELSE after
           /\ cycles - Last.pre.cycles
                = IF ~taken THEN 2
                  ELSE IF Page(after) = Page(new) THEN 3 ELSE 4


\* the word that follows the opcode a step() fetched
Pointer(call) ==
    Immediate(call) + 256 * Cell(call.pre.memory, Index(call.pre.r.pc + 2))

Mode(call) ==
    IF Entry(call)[4][1] = "call" THEN Entry(call)[4][2] ELSE ""

\* the address the indexed mode of a step() has computed
EffectiveAddress(call) ==
    IF Mode(call) \in {"_load_addr_y", "_load_addr_y_value"}
    THEN _load_addr_y(read_byte(Before(call))).v
    ELSE _load_iy(read_byte(Before(call))).v

\* C25: a step() of an opcode in a,y mode computes the effective address
\* (base + Y) mod 65536, whatever X holds: LDA a,y and LDX a,y load the
\* byte at that address and STA a,y stores A there.
C25_AbsoluteY ==
    (Stepped /\ Mode(Last) \in {"_load_addr_y", "_load_addr_y_value"})
    => LET addr == (Base(Last) + Last.pre.r.y) % 65536
       IN  /\ EffectiveAddress(Last) = addr
           /\ (Completed /\ Entry(Last)[3] = "LDA")
              => r.a = Cell(Last.pre.memory, Index(addr))
           /\ (Completed /\ Entry(Last)[3] = "LDX")
              => r.x = Cell(Last.pre.memory, Index(addr))
           /\ (Completed /\ Entry(Last)[3] = "STA")
              => Cell(memory, Index(addr)) = Last.pre.r.a

\* C26: a step() of an opcode in (zp),y mode computes the effective address
\* (MMU[zp] + 256 * MMU[(zp + 1) mod 256] + Y) mod 65536: the pointer's
\* high byte is read in page zero for zp = $FF too, and Y is added; LDA
\* (zp),y loads the byte at that address and STA (zp),y stores A there.
C26_IndirectY ==
    (Stepped /\ Mode(Last) \in {"_load_iy", "_load_iy_value"})
    => LET addr == (Base(Last) + Last.pre.r.y) % 65536
       IN  /\ EffectiveAddress(Last) = addr
           /\ (Completed /\ Entry(Last)[3] = "LDA")
              => r.a = Cell(Last.pre.memory, Index(addr))
           /\ (Completed /\ Entry(Last)[3] = "STA")
              => Cell(memory, Index(addr)) = Last.pre.r.a


\* the last step() fetched an opcode that works on a memory cell
OnMemory == Stepped /\ Entry(Last)[4][1] = "call"

\* the cell such an opcode works on
Address == Index(Operand(Last).arg[2])

\* the value the last step() found in what its instruction changes: in the
\* memory cell, or in A
Found ==
    IF OnMemory THEN Cell(Last.pre.memory, Address) ELSE Last.pre.r.a

\* the last step() works on A, or on a cell outside the read-only blocks
OnWritable == OnMemory => ~InReadOnlyBlock(Last.pre.blocks, Address)

\* C27: a step() of INC or DEC on writable memory completes without error,
\* stores (MMU[addr] + 1) mod 256 or (MMU[addr] - 1) mod 256 at addr, sets
\* Z and N from the stored byte and changes no other byte of memory.
C27_IncDec ==
    (OnMemory /\ Entry(Last)[3] \in {"INC", "DEC"} /\ OnWritable)
    => LET result == IF Entry(Last)[3] = "INC" THEN (Found + 1) % 256
                     ELSE (Found - 1) % 256
       IN  /\ Last.err = "none"
           /\ memory = SetCell(Last.pre.memory, Address, result)
           /\ Flag(r.p, "Z") <=> (result = 0)
           /\ Flag(r.p, "N") <=> Bit7(result)

\* C28: a step() of ASL on A or on writable memory holding the byte v
\* completes without error, also when bit 7 of v is set, sets C to bit 7 of
\* v, stores (v << 1) & $FF back and sets Z and N from the stored byte.
C28_ShiftLeft ==
    (Stepped /\ Entry(Last)[3] = "ASL" /\ OnWritable)
    => /\ Last.err = "none"
       /\ Target = (Found * 2) % 256
       /\ Flag(r.p, "C") <=> Bit7(Found)
       /\ Flag(r.p, "Z") <=> (Target = 0)
       /\ Flag(r.p, "N") <=> Bit7(Target)

\* C29: a step() of LSR on A or on writable memory holding the byte v
\* completes without error, sets C to bit 0 of v, stores v >> 1 back, sets
\* Z from the stored byte and clears N.
C29_ShiftRight ==
    (Stepped /\ Entry(Last)[3] = "LSR" /\ OnWritable)
    => /\ Last.err = "none"
       /\ Target = Found \div 2
       /\ Flag(r.p, "C") <=> (Found % 2 = 1)
       /\ Flag(r.p, "Z") <=> (Target = 0)
       /\ ~Flag(r.p, "N")


\* C30: a step() of PHA, after steps that loaded A, stores in the stack page
\* the value A holds when the step begins, and a step() of PHP, after steps
\* that changed P, the value P holds then; each lowers SP by 1 mod 256.
C30_PushCurrent ==
    (Stepped /\ Fetched(Last) \in {\h48, \h08})
    => LET value == IF Fetched(Last) = \h48 THEN Last.pre.r.a
                    ELSE Last.pre.r.p
       IN  /\ Last.err = "none"
           /\ \E sp \in 0..\hFF :
                 memory = SetCell(Last.pre.memory, StackCell(sp), value)
           /\ r.sp = (Last.pre.r.sp - 1) % 256


\* byte k above the stack pointer a call started with
Stacked(call, k) ==
    Cell(call.pre.memory, StackCell((call.pre.r.sp + k) % 256))

\* C31: a step() of RTI pulls one byte into P, keeping the unused bit 5
\* set, then pulls PC, low byte first, and adds nothing to it, raising SP by
\* 3 mod 256; as the first instruction a completed BRK reaches, it puts PC
\* back to the address that BRK has pushed.
C31_ReturnFromInterrupt ==
    /\ (Stepped /\ Fetched(Last) = \h40)
       => /\ Last.err = "none"
          /\ r.p = BitOr(Stacked(Last, 1), \h20)
          /\ r.pc = Stacked(Last, 2) + 256 * Stacked(Last, 3)
          /\ r.sp = (Last.pre.r.sp + 3) % 256
    /\ (/\ TwoSteps
        /\ Fetched(hist[1]) = \h00
        /\ Fetched(hist[2]) = \h40)
       => r.pc = hist[1].pre.r.pc + 2

\* C32: a step() of BRK at address p with a writable stack completes
\* without error, pushes the high and then the low byte of p + 2 and then P
\* with the B and unused bits set, sets I, lowers SP by 3 mod 256 and sets
\* PC to MMU[$FFFE] + 256 * MMU[$FFFF].
C32_Break ==
    (/\ Stepped /\ Fetched(Last) = \h00
     /\ \A sp \in 0..\hFF : ~Marked(Last.pre.read_only, StackCell(sp)))
    => LET p == Last.pre.r.pc
           pushed(top) ==
               /\ Cell(memory, StackCell(top)) = (p + 2) \div 256
               /\ Cell(memory, StackCell((top - 1) % 256)) = (p + 2) % 256
               /\ Cell(memory, StackCell((top - 2) % 256))
                    = BitOr(Last.pre.r.p, \h30)
       IN  /\ Last.err = "none"
           /\ pushed(Last.pre.r.sp) \/ pushed((Last.pre.r.sp + 1) % 256)
           /\ Flag(r.p, "I")
           /\ r.sp = (Last.pre.r.sp - 3) % 256
           /\ r.pc = Cell(Last.pre.memory, \hFFFE)
                     + 256 * Cell(Last.pre.memory, \hFFFF)


\* register name of a Registers record
Reg(regs, name) ==
    CASE name = "a" -> regs.a [] name = "x" -> regs.x
      [] name = "y" -> regs.y [] name = "sp" -> regs.sp

\* what each transfer opcode copies: source, then destination
Transfers ==
    [op \in {\hAA, \h8A, \hA8, \h98, \h9A, \hBA} |->
       CASE op = \hAA -> <<"a", "x">> [] op = \h8A -> <<"x", "a">>
         [] op = \hA8 -> <<"a", "y">> [] op = \h98 -> <<"y", "a">>
         [] op = \h9A -> <<"x", "sp">> [] op = \hBA -> <<"sp", "x">>]

\* C33: a step() of TAX, TAY, TXA, TYA or TSX completes without error,
\* copies the source register into the destination register (TSX: SP into
\* X) and sets Z and N from the copied value; TXS sets SP to X and changes
\* no flag; no transfer changes its source register.
C33_Transfers ==
    (Stepped /\ Fetched(Last) \in DOMAIN Transfers)
    => LET source == Transfers[Fetched(Last)][1]
           dest == Transfers[Fetched(Last)][2]
           value == Reg(Last.pre.r, source)
       IN  /\ Last.err = "none"
           /\ Reg(r, dest) = value
           /\ Reg(r, source) = value
           /\ IF dest = "sp" THEN r.p = Last.pre.r.p
              ELSE /\ Flag(r.p, "Z") <=> (value = 0)
                   /\ Flag(r.p, "N") <=> Bit7(value)


\* the addresses marked read-only in mask ro
ReadOnlyAddrs(ro) == UNION {iv[1]..(iv[2] - 1) : iv \in ro}

\* C34: the byte at an address that add_block has marked read-only is the
\* same after every later call of write or add_block, with or without
\* initial data.
C34_ReadOnlyKept ==
    Called
    => \A addr \in ReadOnlyAddrs(Last.pre.read_only) :
          Cell(memory, addr) = Cell(Last.pre.memory, addr)


\* C35: a step() that ends in an error, for an unknown opcode or for a
\* store or a read-modify-write whose target is read-only, indexed stores
\* that cross a page among them, leaves the cycle counter as it was.
C35_ErrorKeepsCycles ==
    (/\ Called /\ Last.name = "step"
     /\ Last.err \in {"KeyError", "ReadOnlyError"})
    => cycles = Last.pre.cycles


\* call is a step() that fetched a byte that is no key of the opcode table
UnknownOpcode(call) ==
    /\ call.name = "step"
    /\ Index(call.pre.r.pc) # -1
    /\ Fetched(call) \notin DOMAIN ops_by_code

\* C36: a step() that fetches an unknown opcode fails, leaves A, X, Y, SP, P
\* and all memory as they were and PC one past the offending byte; a further
\* step() does what a step() at the following byte does.
C36_UnknownOpcodeFrame ==
    /\ (Called /\ UnknownOpcode(Last))
       => /\ Last.err # "none"
          /\ r.a = Last.pre.r.a /\ r.x = Last.pre.r.x /\ r.y = Last.pre.r.y
          /\ r.sp = Last.pre.r.sp /\ r.p = Last.pre.r.p
          /\ memory = Last.pre.memory
          /\ r.pc = Last.pre.r.pc + 1
    /\ (Len(hist) = 2 /\ UnknownOpcode(hist[1]) /\ hist[2].name = "step")
       => LET skipped == [Before(hist[1]) EXCEPT !.r.pc = @ + 1]
          IN  /\ r = step(skipped).r
              /\ memory = step(skipped).memory
              /\ Last.err = step(skipped).err

\* $FF and then NOP: the first step() has failed and the second has
\* executed the NOP that follows
C36_NextByteDecoded ==
    /\ Len(hist) = 2
    /\ UnknownOpcode(hist[1]) /\ Fetched(hist[1]) = \hFF
    /\ hist[2].name = "step" /\ hist[2].err = "none"
    /\ Fetched(hist[2]) = \hEA
    /\ r.pc = hist[1].pre.r.pc + 2

====
